---- MODULE Spec2Model ----
(***************************************************************************)
(* Agent pool, per-agent conversation state machine, background            *)
(* compression and diary scheduler of the agent service                    *)
(* (src/agent_service).                                                    *)
(*                                                                         *)
(* Scheduling model: one asyncio event loop.  A step of the model is the   *)
(* code a task runs between two suspension points (awaits that really      *)
(* yield: language-model calls, storage calls, lock waits).  An await of   *)
(* a coroutine that never yields (restore_state, initialize, an            *)
(* uncontended asyncio.Lock.acquire) does not end a step.                  *)
(*                                                                         *)
(* Calls are bound by name.  Some call sites pass keyword arguments that   *)
(* the callee revision under src/ does not declare (player_timezone to     *)
(* create_agent_with_backstory, player_info to save_hibernation_state,     *)
(* embedding to save_diary_entry); the callee's body is followed and the   *)
(* extra argument has no effect.  Storage methods that are called but not  *)
(* defined under src/ are noted where they are used.  A storage call takes  *)
(* its arguments as they are when the call is made (a pooled connection is  *)
(* free, so pool.acquire() does not suspend before the statement is sent)   *)
(* and changes the table when it completes.                                 *)
(*                                                                         *)
(* Time is counted in hours: now is an absolute hour count, a local date   *)
(* is the day number (now + offset) \div 24.                               *)
(***************************************************************************)
EXTENDS Integers, Sequences, FiniteSets, TLC

\* ------------------------------------------------------------------ sets
Chars   == {1, 2}       \* character NFT ids
Played  == {1}          \* the character the requests of a scenario address
Players == {1, 2}       \* player addresses
Slots   == {1, 2}       \* concurrent /message requests

\* ---------------------------------------------------------------- bounds
MaxInst    == 3         \* CharacterAgent objects constructed in one run
StartHour  == 46        \* clock at service start (day 1, 22:00 UTC)
ShortWords == 1         \* words of a short message text
LongWords  == 700       \* words of a long message text
MediumWords == 614      \* words of a text just under the token budget
SummaryWords == 20      \* words of a parsed summary line

\* ------------------------------------------------------ program constants
NoDate        == -1     \* today_date / pending_diary_date is None
Missing       == -99    \* key absent from the state dict
InitAffection == 10
MaxAffection  == 1000
WindowCap     == 15     \* rolling window of messages_today
BufferTrigger == 15     \* message_count >= 15
TokenBudget   == 800    \* estimated_tokens > 800
DeltaCap      == 5      \* clamp to -5 .. +5
HoursPerDay   == 24
IdleTimeout   == 1      \* AGENT_IDLE_TIMEOUT, 3600 s, in hours


\* --------------------------------------------------------------- helpers
Max2(a, b) == IF a > b THEN a ELSE b
Min2(a, b) == IF a < b THEN a ELSE b

Unclamped(x) == x

\* character_agent.py:442  max(0, min(1000, x))
ClampAffection(x) == Max2(0, Min2(MaxAffection, x))

\* character_agent.py:344  max(-5, min(5, x))
DeltaUnclamped(x) == x
ClampDelta(x) == Max2(0 - DeltaCap, Min2(DeltaCap, x))

\* character_agent.py:375-389  date of utc_now + timedelta(hours=tz)
PlayerDate(t, tz) == (t + tz) \div HoursPerDay

RECURSIVE SumWords(_)
SumWords(ms) == IF ms = <<>> THEN 0 ELSE Head(ms).words + SumWords(Tail(ms))

Ids(ms) == {ms[k].id : k \in 1..Len(ms)}

\* A conversation summary is the set of message ids it digests, together
\* with 0 when its text is not empty; {} is the empty string.
EmptySummary == {}

\* ------------------------------------------------------ ConversationState
\* character_agent.py:115-136 (CharacterAgent.__init__)
NewState(c) ==
  [ character_id                |-> c,
    player_address              |-> 0,
    player_name                 |-> 0,
    player_info                 |-> Missing,
    messages_today              |-> <<>>,
    messages_for_compression    |-> <<>>,
    today_date                  |-> NoDate,
    backstory                   |-> "none",
    affection_level             |-> InitAffection,
    total_messages              |-> 0,
    conversation_summary        |-> EmptySummary,
    last_compression_at         |-> 0,
    pending_affection_delta     |-> 0,
    pending_diary_messages      |-> <<>>,
    pending_diary_summary       |-> EmptySummary,
    pending_diary_date          |-> NoDate,
    pending_diary_message_count |-> 0,
    messages_today_count        |-> 0 ]

\* character_agent.py:138-170 (initialize); player_info holds the timezone
Initialize(s, p, tz, t) ==
  [s EXCEPT !.player_address = p, !.player_name = p, !.player_info = tz,
            !.today_date = PlayerDate(t, tz), !.messages_today = <<>>]

\* character_agent.py:404  state.get("player_info", {}).get("timezone", 0)
PlayerTimezone(s) == IF s.player_info = Missing THEN 0 ELSE s.player_info

\* state.get("messages_today_count", 0)
TodayCountOrZero(s) ==
  IF s.messages_today_count = Missing THEN 0 ELSE s.messages_today_count

\* character_agent.py:250-262 (_should_compress_conversation).  The texts
\* are concatenated without a separator, so the last word of one piece and
\* the first word of the next count as one word; texts carry no leading or
\* trailing blanks.
Pieces(s) ==
  (IF s.conversation_summary = EmptySummary THEN 0 ELSE 1)
  + Len(s.messages_for_compression)
SeparateWords(s) ==
  (IF s.conversation_summary = EmptySummary THEN 0 ELSE SummaryWords)
  + SumWords(s.messages_for_compression)
ConversationWords(s) ==
  LET w == (IF s.conversation_summary = EmptySummary THEN 0 ELSE SummaryWords)
           + SumWords(s.messages_for_compression)
  IN IF Pieces(s) = 0 THEN 0 ELSE w - (Pieces(s) - 1)
ShouldCompress(s) ==
  \/ Len(s.messages_for_compression) >= BufferTrigger
  \/ ConversationWords(s) * 13 > TokenBudget * 10

\* one chat message
Message(id, sender, words, ac) ==
  [id |-> id, sender |-> sender, words |-> words, ac |-> ac]

Untrimmed(ms) == ms

\* character_agent.py:465-470 / 534-539: append to both lists, trim window
TrimWindow(ms) == IF Len(ms) > WindowCap THEN Tail(ms) ELSE ms
AppendBoth(s, m) ==
  [s EXCEPT !.messages_today = TrimWindow(Append(@, m)),
            !.messages_for_compression = Append(@, m)]

\* character_agent.py:407-435: date rollover at the start of a turn
IsRollover(s, today) == s.today_date # today /\ s.today_date # NoDate
StageOnly(s, today) ==
  IF IsRollover(s, today)
  THEN [s EXCEPT
          !.pending_diary_summary = s.conversation_summary,
          !.pending_diary_messages = s.messages_for_compression,
          !.pending_diary_date = s.today_date,
          !.pending_diary_message_count = TodayCountOrZero(s),
          !.today_date = today,
          !.pending_affection_delta = 0]
  ELSE s
Rollover(s, today) ==
  IF IsRollover(s, today)
  THEN [s EXCEPT
          !.pending_diary_summary = s.conversation_summary,
          !.pending_diary_messages = s.messages_for_compression,
          !.pending_diary_date = s.today_date,
          !.pending_diary_message_count = TodayCountOrZero(s),
          !.today_date = today,
          !.messages_today = <<>>,
          !.messages_for_compression = <<>>,
          !.conversation_summary = EmptySummary,
          !.pending_affection_delta = 0,
          !.messages_today_count = 0]
  ELSE s

KeepPending(s) ==
  [s EXCEPT !.affection_level = ClampAffection(@ + s.pending_affection_delta)]

DropPending(s) == [s EXCEPT !.pending_affection_delta = 0]

\* character_agent.py:437-444: apply the pending delta
ApplyPending(s) ==
  IF s.pending_affection_delta # 0
  THEN [s EXCEPT !.affection_level =
                    ClampAffection(@ + s.pending_affection_delta),
                 !.pending_affection_delta = 0]
  ELSE s

\* character_agent.py:461-473: the player's message; line 473 raises
\* KeyError when messages_today_count is absent, after lines 465-472 ran
PlayerAppendRaises(s) == s.messages_today_count = Missing
PlayerAppend(s, m) ==
  LET a == [AppendBoth(s, m) EXCEPT !.total_messages = @ + 1]
  IN IF PlayerAppendRaises(s) THEN a
     ELSE [a EXCEPT !.messages_today_count = @ + 1]

\* character_agent.py:523-541: the character's reply
ReplyAppend(s, m) ==
  [AppendBoth(s, m) EXCEPT !.messages_today_count = @ + 1]

\* -------------------------------------------------- compression parsing
\* A completion is a sequence of lines; a line has a prefix k, a flag txt
\* (the text after the prefix is not blank) and, for a delta line, the
\* tokens after the prefix, each a number or a word.
Num(n)  == [num |-> TRUE, val |-> n]
Word    == [num |-> FALSE, val |-> 0]
SummaryLine(txt) == [k |-> "SUMMARY:", txt |-> txt, toks |-> <<>>]
DeltaLine(toks)  == [k |-> "AFFECTION_DELTA:", txt |-> TRUE, toks |-> toks]
ReasonLine       == [k |-> "REASONING:", txt |-> TRUE, toks |-> <<>>]
OtherLine        == [k |-> "", txt |-> TRUE, toks |-> <<>>]

\* character_agent.py:340  re.search(r'[-+]?\d+', delta_str)
RECURSIVE FirstNumber(_)
FirstNumber(toks) ==
  IF toks = <<>> THEN [found |-> FALSE, val |-> 0]
  ELSE IF Head(toks).num THEN [found |-> TRUE, val |-> Head(toks).val]
  ELSE FirstNumber(Tail(toks))

\* character_agent.py:328-346: scan the lines by prefix
RECURSIVE ScanLines(_, _)
ScanLines(lines, acc) ==
  IF lines = <<>> THEN acc
  ELSE LET l == Head(lines)
           m == FirstNumber(l.toks)
           nxt == IF l.k = "SUMMARY:" THEN [acc EXCEPT !.summary = l.txt]
                  ELSE IF l.k = "AFFECTION_DELTA:" /\ m.found
                       THEN [acc EXCEPT !.delta = ClampDelta(m.val)]
                  ELSE acc
       IN ScanLines(Tail(lines), nxt)
ParseCompletion(lines) == ScanLines(lines, [summary |-> FALSE, delta |-> 0])

\* character_agent.py:304-309: what the compression prompt is built from
Digest(s) == s.conversation_summary \cup Ids(s.messages_for_compression)

CompressAppliesDelta(s, dig, lines, t) ==
  LET r == ParseCompletion(lines)
  IN [s EXCEPT !.conversation_summary =
                  IF r.summary THEN {0} \cup dig ELSE EmptySummary,
               !.last_compression_at = t,
               !.messages_for_compression = <<>>,
               !.pending_affection_delta = 0,
               !.affection_level = ClampAffection(@ + r.delta)]

\* character_agent.py:348-363 and 281: the state after a parsed completion
\* of a prompt that was built from dig
CompressApply(s, dig, lines, t) ==
  LET r == ParseCompletion(lines)
  IN [s EXCEPT !.conversation_summary =
                  IF r.summary THEN {0} \cup dig ELSE EmptySummary,
               !.last_compression_at = t,
               !.messages_for_compression = <<>>,
               !.pending_affection_delta = r.delta]

\* the text AFFECTION_DELTA: inside a line
Marker == [num |-> FALSE, val |-> 1]

\* completions off the format the prompt asks for: two delta lines; all on
\* the summary line; a delta line without a number
OddCompletions ==
  { <<SummaryLine(TRUE), DeltaLine(<<Num(2)>>), DeltaLine(<<Num(4)>>)>>,
    <<[k |-> "SUMMARY:", txt |-> TRUE, toks |-> <<Word, Marker, Num(3)>>]>>,
    <<SummaryLine(TRUE), DeltaLine(<<Word>>), ReasonLine>> }

\* completions the language model may return to the compression prompt
Completions ==
  { <<SummaryLine(TRUE), DeltaLine(<<Num(3)>>), ReasonLine>>,
    <<SummaryLine(TRUE), DeltaLine(<<Word, Num(-9)>>)>>,
    <<OtherLine>> }

\* ------------------------------------------------------- persisted record
\* hibernate_data as agent_manager.py:323-331 writes it; a NULL column and
\* an absent key read as the defaults of agent_manager.py:120-141
NullPayload ==
  [ messages_today           |-> <<>>,
    messages_for_compression |-> <<>>,
    today_date               |-> NoDate,
    backstory                |-> "absent",
    conversation_summary     |-> EmptySummary,
    last_compression_at      |-> 0,
    pending_affection_delta  |-> 0 ]

DatedWindowOnly(s) ==
  [NullPayload EXCEPT !.messages_today = s.messages_today,
                      !.today_date = s.today_date,
                      !.backstory = s.backstory]

\* agent_manager.py:323-331 (also 252-260)
HibernateData(s) ==
  [ messages_today           |-> s.messages_today,
    messages_for_compression |-> s.messages_for_compression,
    today_date               |-> s.today_date,
    backstory                |-> s.backstory,
    conversation_summary     |-> s.conversation_summary,
    last_compression_at      |-> s.last_compression_at,
    pending_affection_delta  |-> s.pending_affection_delta ]

\* a row of agent_states (postgres_storage.py:117-133)
NoRow ==
  [ present |-> FALSE, affection_level |-> 0, total_messages |-> 0,
    hibernate_data |-> NullPayload, player_timezone |-> 0, updated_at |-> 0 ]

\* agent_manager.py:119-142: the state dict a woken agent is restored from.
\* It has no player_info, pending_diary_* or messages_today_count key.
TransformState(row, c, p) ==
  LET hd == row.hibernate_data
  IN [ NewState(c) EXCEPT
         !.player_address = p,
         !.player_name = p,
         !.messages_today = hd.messages_today,
         !.messages_for_compression = hd.messages_for_compression,
         !.today_date = hd.today_date,
         !.backstory = IF hd.backstory = "absent" THEN "full" ELSE hd.backstory,
         !.affection_level = row.affection_level,
         !.total_messages = row.total_messages,
         !.conversation_summary = hd.conversation_summary,
         !.last_compression_at = hd.last_compression_at,
         !.pending_affection_delta = hd.pending_affection_delta,
         !.messages_today_count = Missing ]

\* postgres_storage.py:341-384 (UPDATE ... WHERE character_id, player_address)
SaveHibernationState(d, c, p, hd, aff, tot, t) ==
  IF d[c][p].present
  THEN [d EXCEPT ![c][p].hibernate_data = hd, ![c][p].affection_level = aff,
                 ![c][p].total_messages = tot, ![c][p].updated_at = t]
  ELSE d

\* postgres_storage.py:261-296
UpdateProgress(d, c, p, aff, tot, t) ==
  IF d[c][p].present
  THEN [d EXCEPT ![c][p].affection_level = aff,
                 ![c][p].total_messages = tot, ![c][p].updated_at = t]
  ELSE d

\* postgres_storage.py:386-412
ClearHibernationData(d, c, p, t) ==
  IF d[c][p].present
  THEN [d EXCEPT ![c][p].hibernate_data = NullPayload, ![c][p].updated_at = t]
  ELSE d

\* postgres_storage.py:186-259 (INSERT ... ON CONFLICT DO UPDATE)
SaveAgentState(d, c, p, tz, aff, tot, t) ==
  IF d[c][p].present
  THEN [d EXCEPT ![c][p].affection_level = aff, ![c][p].total_messages = tot,
                 ![c][p].hibernate_data = NullPayload, ![c][p].updated_at = t]
  ELSE [d EXCEPT ![c][p] =
          [ present |-> TRUE, affection_level |-> aff, total_messages |-> tot,
            hibernate_data |-> NullPayload, player_timezone |-> tz,
            updated_at |-> t ]]

\* ------------------------------------------------------------- variables
VARIABLES
  now,      \* the clock, in hours
  agents,   \* CharacterAgent objects constructed so far: sequence of states
  lock,     \* per object: the /message request holding compression_lock, or 0
  lockq,    \* per object: the requests waiting for compression_lock, in order
  active,   \* AgentManager.active_agents: character -> object, 0 if absent
  lastAct,  \* AgentManager.last_activity: character -> time, NoDate if absent
  db,       \* agent_states: character -> player -> row
  diaries,  \* the diary entries handed to save_diary_entry, in order
  req,      \* the /message requests (send_message and its background task)
  crt,      \* the /create request
  gft,      \* the /gift request
  swp,      \* AgentManager._hibernation_loop
  sch,      \* DiaryScheduler._hourly_diary_generation
  nMsg,     \* messages created so far
  left,     \* what the run may still do: requests, gifts, failures, hours
  hib,      \* history: per character, the last completed hibernation
  wasActive, \* per object: CharacterAgent.was_active
  shut,     \* AgentManager.shutdown
  snap      \* a state dict returned by get_state and who shares it

vars == <<now, agents, lock, lockq, active, lastAct, db, diaries,
          req, crt, gft, swp, sch, nMsg, left, hib, wasActive, shut, snap>>

Resident(c) == active[c] # 0

\* the /message and /create requests are idle
Quiet == crt.pc = "idle" /\ \A m \in Slots : req[m].pc = "idle"

\* lookup and mem are what the diary search of the slot's last answered turn
\* gave, as logged at character_agent.py:488-499; lines is the completion
\* that the slot's last compression received
IdleReq == [pc |-> "idle", c |-> 0, p |-> 0, words |-> 0, inst |-> 0,
            afc |-> 0, dig |-> {}, lookup |-> "none", mem |-> {},
            lines |-> <<>>]
\* tz is the playerTimezone of the request body (main.py:62); it stays, as
\* history, when the request has ended
IdleCrt == [pc |-> "idle", c |-> 0, p |-> 0, inst |-> 0, tz |-> 0]
CreateEnded(h) == [IdleCrt EXCEPT !.tz = h.tz]
NoOut   == [c |-> 0, p |-> 0, hd |-> NullPayload, aff |-> 0, tot |-> 0]
IdleGft == [pc |-> "idle", c |-> 0, p |-> 0, boost |-> 0, row |-> NoRow,
            out |-> NoOut]
NoState == NewState(0)
IdleSwp == [pc |-> "sleep", todo |-> <<>>, out |-> NoOut, state |-> NoState,
            agent |-> 0]
NoDiary == [summary |-> EmptySummary, messages |-> <<>>, date |-> NoDate,
            count |-> 0]
\* all is the list the query returned and tried the pairs taken from it so
\* far; with ok and fail they stay as logged until the next cycle starts;
\* failed is history: the entries whose _save_daily_diary raised
IdleSch == [pc |-> "idle", due |-> FALSE, tz |-> 0, date |-> NoDate,
            pairs |-> <<>>, all |-> <<>>, tried |-> <<>>,
            c |-> 0, p |-> 0, inst |-> 0, diary |-> NoDiary, out |-> NoOut,
            state |-> NoState, agent |-> 0, ok |-> 0, fail |-> 0,
            failed |-> {}]
NoHib   == [done |-> FALSE, p |-> 0, state |-> NoState, row |-> NoRow,
            agents |-> {}]

\* AgentManager.shutdown has not been called; began is history: the objects
\* that were resident when it was called
IdleShut == [pc |-> "idle", todo |-> <<>>, out |-> NoOut, state |-> NoState,
             agent |-> 0, began |-> [c \in Chars |-> 0]]
\* no state dict has been taken
NoSnap == [pc |-> "none", src |-> 0, dst |-> 0, dict |-> NoState,
           taken |-> NoState, shared |-> {}, afc |-> 0]

\* the service after startup_event, with an empty agent_states table
InitWith(q) ==
  /\ now = StartHour
  /\ agents = <<>>
  /\ lock = <<>>
  /\ lockq = <<>>
  /\ active = [c \in Chars |-> 0]
  /\ lastAct = [c \in Chars |-> NoDate]
  /\ db = [c \in Chars |-> [p \in Players |-> NoRow]]
  /\ diaries = <<>>
  /\ req = [m \in Slots |-> IdleReq]
  /\ crt = IdleCrt
  /\ gft = IdleGft
  /\ swp = IdleSwp
  /\ sch = IdleSch
  /\ nMsg = 0
  /\ left = q
  /\ hib = [c \in Chars |-> NoHib]
  /\ wasActive = <<>>
  /\ shut = IdleShut
  /\ snap = NoSnap

\* a collaborator call fails (the failure budget bounds the run)
CanFail == left.faults > 0
Fail == left' = [left EXCEPT !.faults = @ - 1]
NoFail == left' = left

\* an hour passes; the cron trigger (minute=0) makes a scheduler cycle due
Tick ==
  /\ left.ticks > 0
  /\ left' = [left EXCEPT !.ticks = @ - 1]
  /\ now' = now + 1
  /\ sch' = [sch EXCEPT !.due = TRUE]
  /\ UNCHANGED <<agents, lock, lockq, active, lastAct, db, diaries,
                 req, crt, gft, swp, nMsg, hib, wasActive, shut, snap>>



\* ------------------------------------------------------------ construction
\* CharacterAgent(character_id, storage): a new object with a free lock;
\* character_agent.py:102 sets was_active
Construct(s) ==
  /\ Len(agents) < MaxInst
  /\ agents' = Append(agents, s)
  /\ lock' = Append(lock, 0)
  /\ lockq' = Append(lockq, <<>>)
  /\ wasActive' = Append(wasActive, TRUE)

\* ------------------------------------------------------------------ /create
\* main.py:166-225 create_agent -> agent_manager.py:71-80 agent_exists
CreateAgentAt(c, p, tz) ==
  /\ crt.pc = "idle"
  /\ ~Resident(c)
  /\ crt' = [IdleCrt EXCEPT !.pc = "exists", !.c = c, !.p = p, !.tz = tz]
  /\ UNCHANGED <<now, agents, lock, lockq, active, lastAct, db, diaries,
                 req, gft, swp, sch, nMsg, left, hib, wasActive, shut, snap>>
CreateAgent(c, p) == CreateAgentAt(c, p, 0)

\* main.py:190-206: the row exists -> "already_exists"; otherwise
\* agent_manager.py:199 awaits the character data
AgentStateExists ==
  /\ crt.pc = "exists"
  /\ crt' = IF db[crt.c][crt.p].present THEN CreateEnded(crt)
            ELSE [crt EXCEPT !.pc = "story"]
  /\ UNCHANGED <<now, agents, lock, lockq, active, lastAct, db, diaries,
                 req, gft, swp, sch, nMsg, left, hib, wasActive, shut, snap>>

\* agent_manager.py:199-224 and character_agent.py:206-248: the character
\* data arrives, the agent is constructed and initialized (timezone defaults
\* to 0) and its backstory generated; nothing but the new object is written
\* on the way, so the awaits are one step; save_agent_state is awaited next
GenerateBackstory ==
  /\ crt.pc = "story"
  /\ \/ /\ Construct([Initialize(NewState(crt.c), crt.p, 0, now)
                         EXCEPT !.backstory = "summary"])
        /\ crt' = [crt EXCEPT !.pc = "save", !.inst = Len(agents) + 1]
        /\ NoFail
     \/ /\ CanFail /\ Fail
        /\ crt' = CreateEnded(crt)
        /\ UNCHANGED <<agents, lock, lockq, wasActive>>
  /\ UNCHANGED <<now, active, lastAct, db, diaries,
                 req, gft, swp, sch, nMsg, hib, shut, snap>>

\* agent_manager.py:224-246: the row is written with timezone 0, the agent
\* is registered, then generate_greeting awaits its completion
RegisterCreated ==
  /\ crt.pc = "save"
  /\ \/ /\ db' = SaveAgentState(db, crt.c, crt.p, 0,
                     agents[crt.inst].affection_level,
                     agents[crt.inst].total_messages, now)
        /\ active' = [active EXCEPT ![crt.c] = crt.inst]
        /\ lastAct' = [lastAct EXCEPT ![crt.c] = now]
        /\ crt' = [crt EXCEPT !.pc = "greet"]
        /\ NoFail
     \/ /\ CanFail /\ Fail
        /\ crt' = CreateEnded(crt)
        /\ UNCHANGED <<db, active, lastAct>>
  /\ UNCHANGED <<now, agents, lock, lockq, diaries,
                 req, gft, swp, sch, nMsg, hib, wasActive, shut, snap>>

\* character_agent.py:730-738: the greeting is appended to both lists
\* (no trim), then agent_manager.py:249 awaits save_hibernation_state
GreetingAppend(s, m) ==
  [s EXCEPT !.messages_today = Append(@, m),
            !.messages_for_compression = Append(@, m),
            !.messages_today_count = @ + 1]

GenerateGreeting ==
  /\ crt.pc = "greet"
  /\ \/ /\ agents' = [agents EXCEPT ![crt.inst] =
                        GreetingAppend(@, Message(nMsg + 1, "character",
                                                  ShortWords, 0))]
        /\ nMsg' = nMsg + 1
        /\ crt' = [crt EXCEPT !.pc = "hib"]
        /\ NoFail
     \/ /\ CanFail /\ Fail
        /\ crt' = CreateEnded(crt)
        /\ UNCHANGED <<agents, nMsg>>
  /\ UNCHANGED <<now, lock, lockq, active, lastAct, db, diaries,
                 req, gft, swp, sch, hib, wasActive, shut, snap>>

\* agent_manager.py:249-263: the first payload is written
SaveGreetingState ==
  /\ crt.pc = "hib"
  /\ LET s == agents[crt.inst]
     IN db' = SaveHibernationState(db, crt.c, crt.p, HibernateData(s),
                                   s.affection_level, s.total_messages, now)
  /\ crt' = CreateEnded(crt)
  /\ UNCHANGED <<now, agents, lock, lockq, active, lastAct, diaries,
                 req, gft, swp, sch, nMsg, left, hib, wasActive, shut, snap>>

\* The service with one agent just created by player 1 for character 1:
\* the state that RegisterCreated, GenerateGreeting and SaveGreetingState
\* leave when /create runs alone at service start.
CreatedState ==
  GreetingAppend([Initialize(NewState(1), 1, 0, StartHour)
                    EXCEPT !.backstory = "summary"],
                 Message(1, "character", ShortWords, 0))
CreatedDb ==
  LET s == CreatedState
      none == [c \in Chars |-> [p \in Players |-> NoRow]]
      row == SaveAgentState(none, 1, 1, 0, InitAffection, 0, StartHour)
  IN SaveHibernationState(row, 1, 1, HibernateData(s), s.affection_level,
                          s.total_messages, StartHour)
InitCreated(q) ==
  /\ now = StartHour
  /\ agents = <<CreatedState>>
  /\ lock = <<0>>
  /\ lockq = << <<>> >>
  /\ active = [c \in Chars |-> IF c = 1 THEN 1 ELSE 0]
  /\ lastAct = [c \in Chars |-> IF c = 1 THEN StartHour ELSE NoDate]
  /\ db = CreatedDb
  /\ diaries = <<>>
  /\ req = [m \in Slots |-> IdleReq]
  /\ crt = IdleCrt
  /\ gft = IdleGft
  /\ swp = IdleSwp
  /\ sch = IdleSch
  /\ nMsg = 1
  /\ left = q
  /\ hib = [c \in Chars |-> NoHib]
  /\ wasActive = <<TRUE>>
  /\ shut = IdleShut
  /\ snap = NoSnap

\* The service with two agents just created by player 1, for characters 1
\* and 2 in this order: the state two /create requests leave when they run
\* one after the other at service start.
SecondCreated ==
  GreetingAppend([Initialize(NewState(2), 1, 0, StartHour)
                    EXCEPT !.backstory = "summary"],
                 Message(2, "character", ShortWords, 0))
InitTwo(q) ==
  /\ now = StartHour
  /\ agents = <<CreatedState, SecondCreated>>
  /\ lock = <<0, 0>>
  /\ lockq = << <<>>, <<>> >>
  /\ active = [c \in Chars |-> c]
  /\ lastAct = [c \in Chars |-> StartHour]
  /\ db = LET s == SecondCreated
              row == SaveAgentState(CreatedDb, 2, 1, 0, InitAffection, 0,
                                    StartHour)
          IN SaveHibernationState(row, 2, 1, HibernateData(s),
                                  s.affection_level, s.total_messages,
                                  StartHour)
  /\ diaries = <<>>
  /\ req = [m \in Slots |-> IdleReq]
  /\ crt = IdleCrt
  /\ gft = IdleGft
  /\ swp = IdleSwp
  /\ sch = IdleSch
  /\ nMsg = 2
  /\ left = q
  /\ hib = [c \in Chars |-> NoHib]
  /\ wasActive = <<TRUE, TRUE>>
  /\ shut = IdleShut
  /\ snap = NoSnap

\* ---------------------------------------------------------------- /message
\* asyncio.Lock.acquire returns without suspending when the lock is free
\* and nobody waits for it
LockFree(i) == lock[i] = 0 /\ lockq[i] = <<>>

LockKept(i) == lock

\* character_agent.py:270, 398: leaving the `async with` block, by return or
\* by exception, releases compression_lock
ReleaseLock(i) == [lock EXCEPT ![i] = 0]

\* character_agent.py:398 `async with self.compression_lock` (process_message)
TurnMayEnter(i) == LockFree(i)

CompressNeverWaits(i) == TRUE

\* character_agent.py:270 `async with self.compression_lock` (compress)
CompressMayEnter(i) == LockFree(i)

\* character_agent.py:461-480: the player's message is recorded; the turn
\* then awaits embedding, search and completion, or ends with KeyError (the
\* lock is released)
PlayerPart(m, i, r, s) ==
  /\ agents' = [agents EXCEPT ![i] =
                  PlayerAppend(s, Message(nMsg + 1, "player", r.words, 0))]
  /\ nMsg' = nMsg + 1
  /\ IF PlayerAppendRaises(s)
     THEN /\ lock' = ReleaseLock(i)
          /\ req' = [req EXCEPT ![m] = IdleReq]
     ELSE /\ lock' = [lock EXCEPT ![i] = m]
          /\ req' = [req EXCEPT ![m] = [r EXCEPT !.pc = "chat", !.inst = i]]

\* character_agent.py:398-459: with the lock held, player name, rollover
\* check, pending delta; a nonzero delta is persisted before going on
TurnSection(m, i, r) ==
  LET s1 == [agents[i] EXCEPT !.player_name = r.p]
      s2 == Rollover(s1, PlayerDate(now, PlayerTimezone(s1)))
      s3 == ApplyPending(s2)
  IN IF s2.pending_affection_delta # 0
     THEN /\ agents' = [agents EXCEPT ![i] = s3]
          /\ lock' = [lock EXCEPT ![i] = m]
          /\ req' = [req EXCEPT ![m] =
                       [r EXCEPT !.pc = "progress", !.inst = i,
                                 !.afc = s2.pending_affection_delta]]
          /\ nMsg' = nMsg
     ELSE PlayerPart(m, i, r, s3)

\* main.py:266 agent.process_message(...): enter at once or queue on the lock
EnterTurn(m, i, r) ==
  IF TurnMayEnter(i)
  THEN /\ TurnSection(m, i, r)
       /\ lockq' = lockq
  ELSE /\ lockq' = [lockq EXCEPT ![i] = Append(@, m)]
       /\ req' = [req EXCEPT ![m] = [r EXCEPT !.pc = "turn_wait", !.inst = i]]
       /\ UNCHANGED <<agents, lock, nMsg>>

TouchAll(c) == [k \in Chars |-> now]

\* agent_manager.py:100  self.last_activity[character_id] = time.time()
Touch(c) == [lastAct EXCEPT ![c] = now]

HitOfPlayer(c, p) == Resident(c) /\ agents[active[c]].player_address = p

\* agent_manager.py:99  if character_id in self.active_agents
Hit(c, p) == Resident(c)

\* main.py:235-266 send_message -> agent_manager.py:98-112 get_or_create_agent:
\* a resident agent is returned at once (99-104), otherwise the row is awaited
SendMessage(m, c, p, w) ==
  /\ req[m].pc = "idle"
  /\ left.reqs > 0
  /\ \A k \in Slots : k < m => req[k].pc # "idle"
  /\ left' = [left EXCEPT !.reqs = @ - 1]
  /\ LET r == [IdleReq EXCEPT !.c = c, !.p = p, !.words = w]
     IN IF Hit(c, p)
        THEN /\ lastAct' = Touch(c)
             /\ wasActive' = [wasActive EXCEPT ![active[c]] = TRUE]
             /\ EnterTurn(m, active[c], r)
        ELSE /\ req' = [req EXCEPT ![m] = [r EXCEPT !.pc = "load"]]
             /\ UNCHANGED <<agents, lock, lockq, lastAct, nMsg, wasActive>>
  /\ UNCHANGED <<now, active, db, diaries, crt, gft, swp, sch, hib, shut, snap>>

AnyRow(row) == TRUE

\* agent_manager.py:112  `if not state_data` is false
RowExists(row) == row.present

\* agent_manager.py:110-149: the row is loaded; no row raises ValueError; a
\* new agent is constructed and restored, then clear_hibernation_data awaited
LoadAgentState(m) ==
  /\ req[m].pc = "load"
  /\ LET r == req[m]
         row == db[r.c][r.p]
     IN \/ /\ RowExists(row)
           /\ Construct(TransformState(row, r.c, r.p))
           /\ req' = [req EXCEPT ![m] =
                        [r EXCEPT !.pc = "clear", !.inst = Len(agents) + 1]]
           /\ NoFail
        \/ /\ ~RowExists(row)
           /\ req' = [req EXCEPT ![m] = IdleReq]
           /\ NoFail
           /\ UNCHANGED <<agents, lock, lockq, wasActive>>
        \/ /\ CanFail /\ Fail
           /\ req' = [req EXCEPT ![m] = IdleReq]
           /\ UNCHANGED <<agents, lock, lockq, wasActive>>
  /\ UNCHANGED <<now, active, lastAct, db, diaries, crt, gft, swp, sch,
                 nMsg, hib, shut, snap>>

\* agent_manager.py:149-175: the payload is cleared, the agent registered,
\* flagged as woken (154) and returned; process_message starts on it
ClearAndRegister(m) ==
  /\ req[m].pc = "clear"
  /\ LET r == req[m]
     IN /\ \/ db' = ClearHibernationData(db, r.c, r.p, now) /\ NoFail
           \/ CanFail /\ Fail /\ db' = db
        /\ active' = [active EXCEPT ![r.c] = r.inst]
        /\ lastAct' = [lastAct EXCEPT ![r.c] = now]
        /\ wasActive' = [wasActive EXCEPT ![r.inst] = FALSE]
        /\ EnterTurn(m, r.inst, r)
  /\ UNCHANGED <<now, diaries, crt, gft, swp, sch, hib, shut, snap>>

\* a request waiting for compression_lock is woken when it is released
AcquireLock(m) ==
  /\ req[m].pc \in {"turn_wait", "compress_wait"}
  /\ LET r == req[m]
         i == r.inst
     IN /\ lock[i] = 0
        /\ lockq[i] # <<>>
        /\ Head(lockq[i]) = m
        /\ lockq' = [lockq EXCEPT ![i] = Tail(@)]
        /\ IF r.pc = "turn_wait"
           THEN TurnSection(m, i, r)
           ELSE /\ lock' = [lock EXCEPT ![i] = m]
                /\ req' = [req EXCEPT ![m] =
                             [r EXCEPT !.pc = "compress",
                                       !.dig = Digest(agents[i])]]
                /\ UNCHANGED <<agents, nMsg>>
  /\ UNCHANGED <<now, active, lastAct, db, diaries, crt, gft, swp, sch, left, hib, wasActive, shut, snap>>

\* character_agent.py:453-459: the applied delta is persisted under the
\* caller's player_address; a storage error ends the turn
PersistAffection(m) ==
  /\ req[m].pc = "progress"
  /\ LET r == req[m]
         i == r.inst
     IN \/ /\ db' = UpdateProgress(db, r.c, r.p, agents[i].affection_level,
                                   agents[i].total_messages, now)
           /\ PlayerPart(m, i, r, agents[i])
           /\ NoFail
        \/ /\ CanFail /\ Fail
           /\ lock' = ReleaseLock(i)
           /\ req' = [req EXCEPT ![m] = IdleReq]
           /\ UNCHANGED <<db, agents, nMsg>>
  /\ UNCHANGED <<now, lockq, active, lastAct, diaries, crt, gft, swp, sch, hib, wasActive, shut, snap>>

\* character_agent.py:476-486: get_embedding, then search_diary_entries
\* (called on the storage but not defined under src/; taken to return what it
\* is asked for): up to `limit` diary entries of the character, of any owner
MemoryLimit == 2
DiariesOf(c) == {k \in 1..Len(diaries) : diaries[k].c = c}
Found(c) ==
  {S \in SUBSET DiariesOf(c) :
     Cardinality(S) = Min2(MemoryLimit, Cardinality(DiariesOf(c)))}

\* character_agent.py:504-555 and main.py:279-286: the prompt is built from
\* the memories, the chat completion arrives, the reply is recorded, the
\* lock released, and compression scheduled when should_compress
Replied(m, how, mems) ==
  LET r == req[m]
      i == r.inst
      s == ReplyAppend(agents[i],
                       Message(nMsg + 1, "character", ShortWords, r.afc))
  IN /\ agents' = [agents EXCEPT ![i] = s]
     /\ nMsg' = nMsg + 1
     /\ req' = [req EXCEPT ![m] =
                  IF ShouldCompress(s)
                  THEN [r EXCEPT !.pc = "background", !.lookup = how,
                                 !.mem = mems]
                  ELSE [IdleReq EXCEPT !.lookup = how, !.mem = mems]]

LookupFailureRaises(m) ==
  /\ req' = [req EXCEPT ![m] = [IdleReq EXCEPT !.lookup = "failed"]]
  /\ UNCHANGED <<agents, nMsg>>

\* character_agent.py:494-501: an exception of the embedding call or of the
\* search is logged and the turn goes on with relevant_memories = []
AfterLookupFailure(m) == Replied(m, "failed", {})

\* character_agent.py:475-555: embedding, diary search and chat completion
\* are awaited one after the other with no write in between; an exception
\* of the chat completion ends the turn
ChatReply(m) ==
  /\ req[m].pc = "chat"
  /\ \/ /\ \E mems \in Found(req[m].c) : Replied(m, "found", mems)
        /\ NoFail
     \/ /\ CanFail /\ Fail
        /\ AfterLookupFailure(m)
     \/ /\ CanFail /\ Fail
        /\ req' = [req EXCEPT ![m] = IdleReq]
        /\ UNCHANGED <<agents, nMsg>>
  /\ lock' = ReleaseLock(req[m].inst)
  /\ UNCHANGED <<now, lockq, active, lastAct, db, diaries, crt, gft, swp,
                 sch, hib, wasActive, shut, snap>>

\* main.py:286 background task -> character_agent.py:264-322: enter the lock
\* or queue; with the lock held the prompt is built and the completion awaited
StartCompression(m) ==
  /\ req[m].pc = "background"
  /\ LET r == req[m]
         i == r.inst
     IN IF CompressMayEnter(i)
        THEN /\ lock' = [lock EXCEPT ![i] = m]
             /\ req' = [req EXCEPT ![m] =
                          [r EXCEPT !.pc = "compress",
                                    !.dig = Digest(agents[i])]]
             /\ lockq' = lockq
        ELSE /\ lockq' = [lockq EXCEPT ![i] = Append(@, m)]
             /\ req' = [req EXCEPT ![m].pc = "compress_wait"]
             /\ lock' = lock
  /\ UNCHANGED <<now, agents, active, lastAct, db, diaries, crt, gft, swp,
                 sch, nMsg, left, hib, wasActive, shut, snap>>

\* character_agent.py:278-294, 318-363: the completion arrives and is parsed
\* and applied, or the call fails and the error is logged; the lock is released
FinishCompression(m, lines) ==
  /\ req[m].pc = "compress"
  /\ LET r == req[m]
         i == r.inst
     IN /\ agents' = [agents EXCEPT ![i] = CompressApply(@, r.dig, lines, now)]
        /\ lock' = ReleaseLock(i)
        /\ req' = [req EXCEPT ![m] = [IdleReq EXCEPT !.lines = lines]]
  /\ UNCHANGED <<now, lockq, active, lastAct, db, diaries, crt, gft, swp,
                 sch, nMsg, left, hib, wasActive, shut, snap>>

DeltaForgotten(s) == [s EXCEPT !.pending_affection_delta = 0]

\* character_agent.py:318-322, 289-294: llm.complete raises before anything
\* is assigned; the handler of compress_and_update_affection only logs
AfterFailedCompletion(s) == s

FailCompression(m) ==
  /\ req[m].pc = "compress"
  /\ CanFail /\ Fail
  /\ agents' = [agents EXCEPT ![req[m].inst] = AfterFailedCompletion(@)]
  /\ lock' = ReleaseLock(req[m].inst)
  /\ req' = [req EXCEPT ![m] = IdleReq]
  /\ UNCHANGED <<now, lockq, active, lastAct, db, diaries, crt, gft,
                 swp, sch, nMsg, hib, wasActive, shut, snap>>



\* --------------------------------------------------------------- hibernation
\* agent_manager.py:319 state = agent.get_state()
GetState(c) == agents[active[c]]

\* agent_manager.py:315-348: the state is exported and the payload prepared
\* for the agent registered under c
Export(c) ==
  LET s == agents[active[c]]
  IN [ c |-> c, p |-> s.player_address, hd |-> HibernateData(s),
       aff |-> s.affection_level, tot |-> s.total_messages ]

\* agent_manager.py:341-348: the row after save_hibernation_state
DbAfterSave(out) ==
  SaveHibernationState(db, out.c, out.p, out.hd, out.aff, out.tot, now)

\* history: the state that was exported, the row it left, and the objects
\* exported so far
Hibernated(out, state, agent) ==
  [hib EXCEPT ![out.c] = [done |-> TRUE, p |-> out.p, state |-> state,
                          row |-> DbAfterSave(out)[out.c][out.p],
                          agents |-> @.agents \cup {agent}]]

ActiveKept(c) == active

\* agent_manager.py:351-352: del active_agents[c]; del last_activity[c]
\* (KeyError, caught at 357, when the key has gone meanwhile)
ActiveAfterRemove(c)  == [active EXCEPT ![c] = 0]
LastActAfterRemove(c) ==
  IF Resident(c) THEN [lastAct EXCEPT ![c] = NoDate] ELSE lastAct

RECURSIVE Ascending(_)
Ascending(S) ==
  IF S = {} THEN <<>>
  ELSE LET x == CHOOSE x \in S : \A y \in S : x <= y
       IN <<x>> \o Ascending(S \ {x})

\* agent_manager.py:284-290
IdleChars ==
  {c \in Chars : lastAct[c] # NoDate /\ lastAct[c] < now - IdleTimeout}

\* agent_manager.py:301-302, 312-313: ids no longer registered are skipped
RECURSIVE SkipAbsent(_, _)
SkipAbsent(todo, act) ==
  IF todo = <<>> THEN <<>>
  ELSE IF act[Head(todo)] = 0 THEN SkipAbsent(Tail(todo), act)
  ELSE todo

\* the sweep continues with the ids left, up to the next storage call
SweepNext(todo, act) ==
  LET rest == SkipAbsent(todo, act)
  IN IF rest = <<>> THEN IdleSwp
     ELSE [pc |-> "hibernate", todo |-> Tail(rest), out |-> Export(Head(rest)),
           state |-> GetState(Head(rest)), agent |-> active[Head(rest)]]

SweepStops(todo, act) == IdleSwp

\* agent_manager.py:357-362, 301-302: the error is logged and the loop of the
\* sweep goes on
SweepAfterFailure(todo, act) == SweepNext(todo, act)

\* agent_manager.py:271-302: a sweep finds idle agents and starts on the first
SweepIdleAgents ==
  /\ swp.pc = "sleep"
  /\ IdleChars # {}
  /\ swp' = SweepNext(Ascending(IdleChars), active)
  /\ UNCHANGED <<now, agents, lock, lockq, active, lastAct, db, diaries,
                 req, crt, gft, sch, nMsg, left, hib, wasActive, shut, snap>>

\* agent_manager.py:341-362: the payload is written and the agent removed,
\* or the write fails and the agent stays; then the next id
SweepHibernated ==
  /\ swp.pc = "hibernate"
  /\ \/ /\ db' = DbAfterSave(swp.out)
        /\ hib' = Hibernated(swp.out, swp.state, swp.agent)
        /\ active' = ActiveAfterRemove(swp.out.c)
        /\ lastAct' = LastActAfterRemove(swp.out.c)
        /\ swp' = SweepNext(swp.todo, ActiveAfterRemove(swp.out.c))
        /\ NoFail
     \/ /\ CanFail /\ Fail
        /\ swp' = SweepAfterFailure(swp.todo, active)
        /\ UNCHANGED <<db, active, lastAct, hib>>
  /\ UNCHANGED <<now, agents, lock, lockq, diaries,
                 req, crt, gft, sch, nMsg, wasActive, shut, snap>>

\* ------------------------------------------------------------------ shutdown
\* every order in which the ids of S may be listed
Orders(S) ==
  {q \in [1..Cardinality(S) -> S] :
     \A a, b \in 1..Cardinality(S) : a # b => q[a] # q[b]}

\* main.py:1111-1124 shutdown_event (the server serves no request any more
\* and no scheduler cycle is running), agent_manager.py:49-59: the sweep task
\* is cancelled and awaited
Shutdown ==
  /\ shut.pc = "idle"
  /\ Quiet /\ gft.pc = "idle" /\ sch.pc = "idle"
  /\ shut' = [IdleShut EXCEPT !.pc = "await_sweep", !.began = active]
  /\ swp' = [swp EXCEPT !.pc = IF @ = "hibernate" THEN "cancel_write"
                               ELSE "cancel_sleep"]
  /\ UNCHANGED <<now, agents, lock, lockq, active, lastAct, db, diaries,
                 req, crt, gft, sch, nMsg, left, hib, wasActive, snap>>

\* agent_manager.py:271-280: CancelledError is raised at the await the sweep
\* is suspended in, asyncio.sleep (275) or save_hibernation_state (341); it
\* is not an Exception, so _hibernate_agent (357) lets it pass, lines 351-352
\* are not reached and the loop breaks (277-278).  The statement of a write
\* that is cancelled has changed the table or has not.
SweepCancelled ==
  /\ swp.pc \in {"cancel_sleep", "cancel_write"}
  /\ \/ db' = db
     \/ swp.pc = "cancel_write" /\ db' = DbAfterSave(swp.out)
  /\ swp' = [swp EXCEPT !.pc = "cancelled"]
  /\ UNCHANGED <<now, agents, lock, lockq, active, lastAct, diaries,
                 req, crt, gft, sch, nMsg, left, hib, wasActive, shut, snap>>

DrainStops(todo, act) == [shut EXCEPT !.pc = "done"]

\* agent_manager.py:63-64, 312-348: the drain goes on with the ids left, up
\* to the next storage call
DrainNext(todo, act) ==
  LET rest == SkipAbsent(todo, act)
  IN IF rest = <<>>
     THEN [shut EXCEPT !.pc = "done", !.todo = <<>>, !.out = NoOut,
                       !.state = NoState, !.agent = 0]
     ELSE [shut EXCEPT !.pc = "hibernate", !.todo = Tail(rest),
                       !.out = Export(Head(rest)),
                       !.state = GetState(Head(rest)),
                       !.agent = active[Head(rest)]]

\* agent_manager.py:61-64: the sweep task has ended; the registered ids are
\* listed and the first is hibernated
ShutdownDrain ==
  /\ shut.pc = "await_sweep"
  /\ swp.pc = "cancelled"
  /\ \E q \in Orders({c \in Chars : Resident(c)}) : shut' = DrainNext(q, active)
  /\ UNCHANGED <<now, agents, lock, lockq, active, lastAct, db, diaries,
                 req, crt, gft, swp, sch, nMsg, left, hib, wasActive, snap>>

\* agent_manager.py:341-362 inside the drain: the payload is written and the
\* agent removed, or the write fails, the error is logged and the agent
\* stays; then the next id, and shutdown returns after the last
ShutdownHibernated ==
  /\ shut.pc = "hibernate"
  /\ \/ /\ db' = DbAfterSave(shut.out)
        /\ hib' = Hibernated(shut.out, shut.state, shut.agent)
        /\ active' = ActiveAfterRemove(shut.out.c)
        /\ lastAct' = LastActAfterRemove(shut.out.c)
        /\ shut' = DrainNext(shut.todo, ActiveAfterRemove(shut.out.c))
        /\ NoFail
     \/ /\ CanFail /\ Fail
        /\ shut' = DrainNext(shut.todo, active)
        /\ UNCHANGED <<db, active, lastAct, hib>>
  /\ UNCHANGED <<now, agents, lock, lockq, diaries,
                 req, crt, gft, swp, sch, nMsg, wasActive, snap>>

\* ---------------------------------------------------------- diary scheduler
HourAsOffset(h) == h

\* diary_scheduler.py:62-87
MidnightTimezone(h) == IF h > 14 THEN h - 24 ELSE h

\* diary_scheduler.py:103-112: rows of the offset touched in the last 24 h
EligiblePairs(tz) ==
  {q \in Chars \X Players :
     /\ db[q[1]][q[2]].present
     /\ db[q[1]][q[2]].player_timezone = tz
     /\ db[q[1]][q[2]].updated_at >= now - HoursPerDay}

\* ORDER BY character_id: rows of one character come in any order
PairOrders(S) ==
  {q \in [1..Cardinality(S) -> S] :
     /\ \A a, b \in 1..Cardinality(S) : a # b => q[a] # q[b]
     /\ \A a, b \in 1..Cardinality(S) : a < b => q[a][1] <= q[b][1]}

\* diary_scheduler.py:204-213: reset for the new day
DailyReset(s, t) ==
  [s EXCEPT !.messages_today = <<>>,
            !.messages_for_compression = <<>>,
            !.conversation_summary = EmptySummary,
            !.pending_affection_delta = 0,
            !.messages_today_count = 0,
            !.today_date = PlayerDate(t, PlayerTimezone(s))]

\* diary_scheduler.py:161-175: nothing staged and nothing to stage
NothingToStage(s) ==
  /\ s.pending_diary_date = NoDate
  /\ s.conversation_summary = EmptySummary
  /\ s.messages_for_compression = <<>>

\* diary_scheduler.py:161-181: stage only when no date is staged
Stage(s, date) ==
  IF s.pending_diary_date = NoDate
  THEN [s EXCEPT !.pending_diary_summary = s.conversation_summary,
                 !.pending_diary_messages = s.messages_for_compression,
                 !.pending_diary_date = date,
                 !.pending_diary_message_count = TodayCountOrZero(s)]
  ELSE s

\* character_agent.py:622-625
PendingDiary(s) ==
  [ summary |-> s.pending_diary_summary, messages |-> s.pending_diary_messages,
    date |-> s.pending_diary_date, count |-> s.pending_diary_message_count ]

\* character_agent.py:628-636: _save_daily_diary returns without writing
DiarySkipped(s) ==
  \/ s.pending_diary_summary = EmptySummary /\ s.pending_diary_messages = <<>>
  \/ s.pending_diary_date = NoDate

\* character_agent.py:683-687
ClearPending(s) ==
  [s EXCEPT !.pending_diary_messages = <<>>,
            !.pending_diary_summary = EmptySummary,
            !.pending_diary_date = NoDate,
            !.pending_diary_message_count = 0]

CycleAborted(h) == [h EXCEPT !.fail = @ + 1, !.pairs = <<>>]

\* diary_scheduler.py:233-242, 284-287: the exception is logged, False is
\* returned and counted, and the for loop goes on
PairFailed(h) == [h EXCEPT !.fail = @ + 1]

\* diary_scheduler.py:280-287 and 146-201: the cycle runs on from the next
\* pair to its next suspension.  st holds the scheduler's locals, the agents,
\* last_activity and the was_active flags as changed so far; act is
\* active_agents.  get_or_create_agent on a resident agent (agent_manager.py
\* 99-104) refreshes last_activity and sets was_active.
RECURSIVE DiaryLoop(_, _), DiaryForAgent(_, _)
DiaryLoop(st, act) ==
  IF st.sch.pairs = <<>>
  THEN [st EXCEPT !.sch = [IdleSch EXCEPT !.due = st.sch.due,
                                          !.all = st.sch.all,
                                          !.tried = st.sch.tried,
                                          !.ok = st.sch.ok,
                                          !.fail = st.sch.fail,
                                          !.failed = st.sch.failed]]
  ELSE LET c == Head(st.sch.pairs)[1]
           h == [st.sch EXCEPT !.pairs = Tail(@), !.c = c,
                               !.tried = Append(@, Head(st.sch.pairs)),
                               !.p = Head(st.sch.pairs)[2], !.inst = act[c],
                               !.diary = NoDiary, !.out = NoOut,
                               !.state = NoState, !.agent = 0]
       IN IF act[c] = 0
          THEN [st EXCEPT !.sch = [h EXCEPT !.pc = "load"]]
          ELSE DiaryForAgent([st EXCEPT !.sch = h, !.lastAct[c] = now,
                                        !.wasActive[act[c]] = TRUE], act)

DiaryForAgent(st, act) ==
  LET i == st.sch.inst
      s == st.agents[i]
      s1 == Stage(s, st.sch.date)
  IN IF NothingToStage(s)
     THEN DiaryLoop([st EXCEPT !.sch.ok = @ + 1], act)
     ELSE IF DiarySkipped(s1)
     THEN [st EXCEPT !.agents[i] = DailyReset(s1, now), !.sch.pc = "progress"]
     ELSE [st EXCEPT !.agents[i] = s1, !.sch.pc = "diary",
                     !.sch.diary = PendingDiary(s1)]

SchedState(h, la, wa) ==
  [sch |-> h, agents |-> agents, lastAct |-> la, wasActive |-> wa]

\* the cycle's locals and what it changed of the agents, last_activity and
\* the was_active flags
SchedulerTakes(r) ==
  /\ sch' = r.sch
  /\ agents' = r.agents
  /\ lastAct' = r.lastAct
  /\ wasActive' = r.wasActive

\* diary_scheduler.py:245-267: the hourly job starts and queries the pairs
SchedulerFire ==
  /\ sch.pc = "idle"
  /\ sch.due
  /\ LET tz == MidnightTimezone(now % HoursPerDay)
     IN sch' = [IdleSch EXCEPT !.pc = "query", !.tz = tz,
                               !.failed = sch.failed,
                               !.date = PlayerDate(now, tz) - 1]
  /\ UNCHANGED <<now, agents, lock, lockq, active, lastAct, db, diaries,
                 req, crt, gft, swp, nMsg, left, hib, wasActive, shut, snap>>

\* diary_scheduler.py:89-130, 269-283: the pairs arrive (none on an error)
SchedulerQuery ==
  /\ sch.pc = "query"
  /\ \/ /\ NoFail
        /\ \E q \in PairOrders(EligiblePairs(sch.tz)) :
             SchedulerTakes(DiaryLoop(SchedState([sch EXCEPT !.pairs = q,
                                                             !.all = q],
                                                 lastAct, wasActive), active))
     \/ /\ CanFail /\ Fail
        /\ sch' = [IdleSch EXCEPT !.due = sch.due, !.failed = sch.failed]
        /\ UNCHANGED <<agents, lastAct, wasActive>>
  /\ UNCHANGED <<now, lock, lockq, active, db, diaries,
                 req, crt, gft, swp, nMsg, hib, shut, snap>>

\* agent_manager.py:110-146 inside the cycle: wake the pair's agent
SchedulerLoad ==
  /\ sch.pc = "load"
  /\ LET row == db[sch.c][sch.p]
     IN \/ /\ row.present
           /\ Construct(TransformState(row, sch.c, sch.p))
           /\ sch' = [sch EXCEPT !.pc = "clear", !.inst = Len(agents) + 1]
           /\ NoFail
           /\ UNCHANGED lastAct
        \/ /\ CanFail /\ Fail
           /\ SchedulerTakes(DiaryLoop(SchedState(PairFailed(sch),
                                                  lastAct, wasActive), active))
           /\ UNCHANGED <<lock, lockq>>
  /\ UNCHANGED <<now, active, db, diaries, req, crt, gft, swp,
                 nMsg, hib, shut, snap>>

\* agent_manager.py:149-175, then diary_scheduler.py:159-201
SchedulerClear ==
  /\ sch.pc = "clear"
  /\ \/ db' = ClearHibernationData(db, sch.c, sch.p, now) /\ NoFail
     \/ CanFail /\ Fail /\ db' = db
  /\ active' = [active EXCEPT ![sch.c] = sch.inst]
  /\ SchedulerTakes(DiaryForAgent(
        SchedState(sch, [lastAct EXCEPT ![sch.c] = now],
                   [wasActive EXCEPT ![sch.inst] = FALSE]),
        [active EXCEPT ![sch.c] = sch.inst]))
  /\ UNCHANGED <<now, lock, lockq, diaries, req, crt, gft, swp,
                 nMsg, hib, shut, snap>>

\* character_agent.py:658-687 then diary_scheduler.py:203-216: the diary is
\* written from the values read before the awaits, the staged fields are
\* cleared, the day is reset; a failure ends the pair
DiaryEntry(h, s) ==
  [ c |-> h.c, p |-> s.player_address, date |-> h.diary.date,
    summary |-> h.diary.summary, messages |-> Ids(h.diary.messages),
    count |-> h.diary.count ]

SchedulerDiary ==
  /\ sch.pc = "diary"
  /\ \/ /\ diaries' = Append(diaries, DiaryEntry(sch, agents[sch.inst]))
        /\ agents' = [agents EXCEPT ![sch.inst] =
                         DailyReset(ClearPending(@), now)]
        /\ sch' = [sch EXCEPT !.pc = "progress"]
        /\ NoFail
        /\ UNCHANGED <<lastAct, wasActive>>
     \/ /\ CanFail /\ Fail
        /\ SchedulerTakes(DiaryLoop(SchedState(
              [PairFailed(sch) EXCEPT
                 !.failed = @ \cup {DiaryEntry(sch, agents[sch.inst])}],
              lastAct, wasActive), active))
        /\ UNCHANGED diaries
  /\ UNCHANGED <<now, lock, lockq, active, db, req, crt, gft, swp,
                 nMsg, hib, shut, snap>>

\* diary_scheduler.py:215-224: progress is persisted, then _hibernate_agent
SchedulerProgress ==
  /\ sch.pc = "progress"
  /\ \/ /\ db' = UpdateProgress(db, sch.c, sch.p,
                                agents[sch.inst].affection_level,
                                agents[sch.inst].total_messages, now)
        /\ NoFail
        /\ IF Resident(sch.c)
           THEN /\ sch' = [sch EXCEPT !.pc = "hibernate",
                                      !.out = Export(sch.c),
                                      !.state = GetState(sch.c),
                                      !.agent = active[sch.c]]
                /\ UNCHANGED <<agents, lastAct, wasActive>>
           ELSE SchedulerTakes(DiaryLoop(SchedState([sch EXCEPT !.ok = @ + 1],
                                                    lastAct, wasActive),
                                         active))
     \/ /\ CanFail /\ Fail
        /\ db' = db
        /\ SchedulerTakes(DiaryLoop(SchedState(PairFailed(sch),
                                               lastAct, wasActive), active))
  /\ UNCHANGED <<now, lock, lockq, active, diaries, req, crt, gft, swp,
                 nMsg, hib, shut, snap>>

\* agent_manager.py:341-362 inside the cycle, then the next pair
SchedulerHibernated ==
  /\ sch.pc = "hibernate"
  /\ \/ /\ db' = DbAfterSave(sch.out)
        /\ hib' = Hibernated(sch.out, sch.state, sch.agent)
        /\ active' = ActiveAfterRemove(sch.c)
        /\ NoFail
        /\ SchedulerTakes(DiaryLoop(SchedState([sch EXCEPT !.ok = @ + 1],
                                               LastActAfterRemove(sch.c),
                                               wasActive),
                                    ActiveAfterRemove(sch.c)))
     \/ /\ CanFail /\ Fail
        /\ UNCHANGED <<db, active, hib>>
        /\ SchedulerTakes(DiaryLoop(SchedState([sch EXCEPT !.ok = @ + 1],
                                               lastAct, wasActive), active))
  /\ UNCHANGED <<now, lock, lockq, diaries, req, crt, gft, swp,
                 nMsg, shut, snap>>


\* --------------------------------------------------------------------- /gift
GiftBoosts == {5, 995}  \* calculate_gift_affection(amount): int(amount / 20)

\* main.py:773-841: the request arrives, wallet and transaction are verified
\* (storage.get_wallet_address is not defined under src/; a wallet and a
\* verified transaction are assumed) and the row is loaded (no row is a
\* 404); update_progress is awaited
ProcessGift(c, p, b) ==
  /\ gft.pc = "idle"
  /\ left.gifts > 0
  /\ left' = [left EXCEPT !.gifts = @ - 1]
  /\ gft' = IF db[c][p].present
            THEN [IdleGft EXCEPT !.pc = "progress", !.c = c, !.p = p,
                                 !.boost = b, !.row = db[c][p]]
            ELSE IdleGft
  /\ UNCHANGED <<now, agents, lock, lockq, active, lastAct, db, diaries,
                 req, crt, swp, sch, nMsg, hib, wasActive, shut, snap>>

\* main.py:843-844 and 850
GiftAffection(row, b) == Min2(MaxAffection, row.affection_level + b)
GiftTotal(row) == row.total_messages + 2

\* main.py:946-947  while len(messages_today) > 15: pop(0)
RECURSIVE TrimAll(_)
TrimAll(ms) == IF Len(ms) > WindowCap THEN TrimAll(Tail(ms)) ELSE ms

\* main.py:867-882: the player's gift message on a resident agent; line 882
\* raises KeyError when messages_today_count is absent
GiftPlayerAppend(s, m) ==
  LET a == [AppendBoth(s, m) EXCEPT !.total_messages = @ + 1]
  IN IF s.messages_today_count = Missing THEN a
     ELSE [a EXCEPT !.messages_today_count = @ + 1]

\* main.py:885-899: the character's thanks
GiftReplyAppend(s, m) ==
  [AppendBoth(s, m) EXCEPT !.messages_today_count = @ + 1]

\* main.py:902-905: the payload written for a resident agent
GiftPayload(s) ==
  [NullPayload EXCEPT !.messages_today = s.messages_today,
                      !.today_date = s.today_date]

\* main.py:853-960: the boost is written; then the gift messages are added
\* to the resident agent, or to the payload loaded before, and the payload
\* write is awaited
GiftProgress ==
  /\ gft.pc = "progress"
  /\ LET g == gft
         m1 == Message(nMsg + 1, "player", ShortWords, 0)
         m2 == Message(nMsg + 2, "character", ShortWords, 0)
     IN \/ /\ NoFail
           /\ db' = UpdateProgress(db, g.c, g.p, GiftAffection(g.row, g.boost),
                                   GiftTotal(g.row), now)
           /\ IF Resident(g.c)
              THEN LET i == active[g.c]
                       s1 == GiftPlayerAppend(agents[i], m1)
                       s2 == GiftReplyAppend(s1, m2)
                   IN IF agents[i].messages_today_count = Missing
                      THEN /\ agents' = [agents EXCEPT ![i] = s1]
                           /\ nMsg' = nMsg + 1
                           /\ gft' = IdleGft
                      ELSE /\ agents' = [agents EXCEPT ![i] = s2]
                           /\ nMsg' = nMsg + 2
                           /\ gft' = [g EXCEPT !.pc = "save", !.out =
                                [ c |-> g.c, p |-> g.p, hd |-> GiftPayload(s2),
                                  aff |-> s2.affection_level,
                                  tot |-> s2.total_messages ]]
              ELSE /\ agents' = agents
                   /\ nMsg' = nMsg + 2
                   /\ gft' = [g EXCEPT !.pc = "save", !.out =
                        [ c |-> g.c, p |-> g.p,
                          hd |-> [g.row.hibernate_data EXCEPT
                                    !.messages_today =
                                       TrimAll(@ \o <<m1, m2>>)],
                          aff |-> GiftAffection(g.row, g.boost),
                          tot |-> GiftTotal(g.row) ]]
        \/ /\ CanFail /\ Fail
           /\ gft' = IdleGft
           /\ UNCHANGED <<db, agents, nMsg>>
  /\ UNCHANGED <<now, lock, lockq, active, lastAct, diaries,
                 req, crt, swp, sch, hib, wasActive, shut, snap>>

\* main.py:907-913, 953-959: the payload write (an error is only logged)
GiftSave ==
  /\ gft.pc = "save"
  /\ \/ db' = DbAfterSave(gft.out) /\ NoFail
     \/ CanFail /\ Fail /\ db' = db
  /\ gft' = IdleGft
  /\ UNCHANGED <<now, agents, lock, lockq, active, lastAct, diaries,
                 req, crt, swp, sch, nMsg, hib, wasActive, shut, snap>>

\* ------------------------------------------------- get_state, restore_state
\* character_agent.py:742-749 called one after the other by a caller of the
\* agent API.  get_state returns self.state.copy(): a new dict whose list
\* values are the agent's own list objects.  restore_state binds the dict it
\* is given as the new agent's state: the dict and that state are one
\* object.  snap.dict is the content of the returned dict, snap.taken its
\* content when it was returned, snap.shared the keys whose list is still
\* one object in the dict and in the state it was copied from.
ListKeys ==
  {"messages_today", "messages_for_compression", "pending_diary_messages"}

\* character_agent.py:742-744 on the agent registered under c
CopyState(c) ==
  /\ snap.pc = "none"
  /\ Resident(c)
  /\ Quiet
  /\ snap' = [NoSnap EXCEPT !.pc = "taken", !.src = active[c],
                            !.dict = agents[active[c]],
                            !.taken = agents[active[c]],
                            !.shared = ListKeys]
  /\ UNCHANGED <<now, agents, lock, lockq, active, lastAct, db, diaries,
                 req, crt, gft, swp, sch, nMsg, left, hib, wasActive, shut>>

\* CharacterAgent(character_id, storage) and character_agent.py:746-749
RestoreState ==
  /\ snap.pc = "taken"
  /\ Construct(snap.dict)
  /\ snap' = [snap EXCEPT !.pc = "restored", !.dst = Len(agents) + 1]
  /\ UNCHANGED <<now, active, lastAct, db, diaries,
                 req, crt, gft, swp, sch, nMsg, left, hib, shut>>

\* s after the lists of new were changed in place: a list under a key of
\* keys is the same object in both
ShareLists(s, new, keys) ==
  [s EXCEPT
     !.messages_today =
        IF "messages_today" \in keys THEN new.messages_today ELSE @,
     !.messages_for_compression =
        IF "messages_for_compression" \in keys
        THEN new.messages_for_compression ELSE @,
     !.pending_diary_messages =
        IF "pending_diary_messages" \in keys
        THEN new.pending_diary_messages ELSE @]

\* character_agent.py:412-432 binds new lists to the three keys at a rollover
KeysAfter(s, today, keys) == IF IsRollover(s, today) THEN {} ELSE keys

\* character_agent.py:398-473 up to the player's message, for player p
TurnStart(s, p, today, m) ==
  PlayerAppend(ApplyPending(Rollover([s EXCEPT !.player_name = p], today)), m)

\* the delta the turn applies and reports
TurnDelta(s, today) == Rollover(s, today).pending_affection_delta

\* character_agent.py:398-480 process_message called on the restored agent
\* by player 1; the awaited update_progress writes the applied level
RestoredTurn(w) ==
  /\ snap.pc = "restored"
  /\ left.reqs > 0
  /\ left' = [left EXCEPT !.reqs = @ - 1]
  /\ LET i == snap.dst
         s == agents[i]
         today == PlayerDate(now, PlayerTimezone(s))
         d == TurnDelta(s, today)
         s1 == TurnStart(s, 1, today, Message(nMsg + 1, "player", w, 0))
         keys == KeysAfter(s, today, snap.shared)
     IN /\ agents' = [agents EXCEPT ![i] = s1,
                                    ![snap.src] = ShareLists(@, s1, keys)]
        /\ db' = IF d # 0
                 THEN UpdateProgress(db, s.character_id, 1, s1.affection_level,
                                     s1.total_messages - 1, now)
                 ELSE db
        /\ snap' = [snap EXCEPT !.dict = s1, !.shared = keys, !.afc = d,
                      !.pc = IF PlayerAppendRaises(Rollover(s, today))
                             THEN "restored"
                             ELSE "chat"]
  /\ nMsg' = nMsg + 1
  /\ UNCHANGED <<now, lock, lockq, active, lastAct, diaries,
                 req, crt, gft, swp, sch, hib, wasActive, shut>>

\* character_agent.py:482-555: the reply is recorded
RestoredReply ==
  /\ snap.pc = "chat"
  /\ LET i == snap.dst
         s1 == ReplyAppend(agents[i],
                           Message(nMsg + 1, "character", ShortWords, snap.afc))
     IN /\ agents' = [agents EXCEPT ![i] = s1,
                                    ![snap.src] = ShareLists(@, s1, snap.shared)]
        /\ snap' = [snap EXCEPT !.dict = s1, !.pc = "restored"]
  /\ nMsg' = nMsg + 1
  /\ UNCHANGED <<now, lock, lockq, active, lastAct, db, diaries,
                 req, crt, gft, swp, sch, left, hib, wasActive, shut>>

\* ------------------------------------------------------------ specification
MessageWords == {ShortWords, LongWords}

CreateStep(P) ==
  \/ \E c \in Played, p \in P : CreateAgent(c, p)
  \/ AgentStateExists
  \/ GenerateBackstory
  \/ RegisterCreated
  \/ GenerateGreeting
  \/ SaveGreetingState

\* /create with a playerTimezone of Z in its body
CreateAtStep(P, Z) ==
  \/ \E c \in Played, p \in P, tz \in Z : CreateAgentAt(c, p, tz)
  \/ AgentStateExists
  \/ GenerateBackstory
  \/ RegisterCreated
  \/ GenerateGreeting
  \/ SaveGreetingState

TurnStep(S, P, W) ==
  \/ \E m \in S, c \in Played, p \in P, w \in W : SendMessage(m, c, p, w)
  \/ \E m \in S : ChatReply(m)

WakeStep(S) ==
  \/ \E m \in S : LoadAgentState(m)
  \/ \E m \in S : ClearAndRegister(m)

CompressStep(S, L) ==
  \/ \E m \in S : StartCompression(m)
  \/ \E m \in S, l \in L : FinishCompression(m, l)

SweepStep ==
  \/ SweepIdleAgents
  \/ SweepHibernated

SchedulerStep ==
  \/ SchedulerFire
  \/ SchedulerQuery
  \/ SchedulerLoad
  \/ SchedulerClear
  \/ SchedulerDiary
  \/ SchedulerProgress
  \/ SchedulerHibernated

GiftStep(P, B) ==
  \/ \E c \in Played, p \in P, b \in B : ProcessGift(c, p, b)
  \/ GiftProgress
  \/ GiftSave

\* A budget says what a run may still do; no request, gift, failure or
\* hour beyond it happens.
Budget(r, g, f, t) == [reqs |-> r, gifts |-> g, faults |-> f, ticks |-> t]

\* ------------------------------------------------------- scenario: turns
\* One player creates the agent and sends long messages over two concurrent
\* requests; every turn makes compression due.  A request that arrives
\* before the row exists ends at the load.
TurnsReqs == 3
NextTurns ==
  \/ CreateStep({1})
  \/ TurnStep(Slots, {1}, {LongWords})
  \/ \E m \in Slots : LoadAgentState(m)
  \/ \E m \in Slots : AcquireLock(m)
  \/ \E m \in Slots : PersistAffection(m)
  \/ CompressStep(Slots, Completions)
SpecTurns == InitWith(Budget(TurnsReqs, 0, 0, 0)) /\ [][NextTurns]_vars

\* --------------------------------------------------- scenario: affection
\* On the created agent: long messages one at a time, each followed by its
\* compression, and a gift large enough to reach the cap.
AffectionReqs  == 4
AffectionGifts == 1
LargeBoost     == 995
NextAffection ==
  \/ TurnStep({1}, {1}, {LongWords})
  \/ PersistAffection(1)
  \/ CompressStep({1}, Completions)
  \/ GiftStep({1}, {LargeBoost})
SpecAffection ==
  InitCreated(Budget(AffectionReqs, AffectionGifts, 0, 0))
    /\ [][NextAffection]_vars

\* -------------------------------------------------------- scenario: pool
\* On the created agent: long messages over two concurrent requests and
\* their compressions, while the hours pass and the idle sweep hibernates
\* the agent; a request that finds no resident agent wakes it.
PoolReqs  == 2
PoolHours == 2
NextPool ==
  \/ Tick
  \/ TurnStep(Slots, {1}, {LongWords})
  \/ WakeStep(Slots)
  \/ \E m \in Slots : AcquireLock(m)
  \/ \E m \in Slots : PersistAffection(m)
  \/ CompressStep(Slots, Completions)
  \/ SweepStep
SpecPool == InitCreated(Budget(PoolReqs, 0, 0, PoolHours)) /\ [][NextPool]_vars

\* --------------------------------------------------------- scenario: day
\* On the created agent: long messages over two concurrent requests and
\* their compressions, while the day changes and the hourly cycle runs at
\* UTC midnight on the resident agent and hibernates it.
DayReqs  == 2
DayHours == 2
NextDay ==
  \/ Tick
  \/ TurnStep(Slots, {1}, {LongWords})
  \/ WakeStep(Slots)
  \/ \E m \in Slots : AcquireLock(m)
  \/ \E m \in Slots : PersistAffection(m)
  \/ CompressStep(Slots, Completions)
  \/ SchedulerFire
  \/ SchedulerQuery
  \/ SchedulerDiary
  \/ SchedulerProgress
  \/ SchedulerHibernated
SpecDay == InitCreated(Budget(DayReqs, 0, 0, DayHours)) /\ [][NextDay]_vars

\* ------------------------------------------------------ scenario: window
\* On the created agent: short messages one at a time, enough to fill the
\* window and to make compression due by count, and a small gift, while the
\* hours pass and the idle sweep hibernates the agent.
WindowReqs  == 8
WindowGifts == 1
WindowHours == 2
SmallBoost  == 5
NextWindow ==
  \/ Tick
  \/ TurnStep({1}, {1}, {ShortWords})
  \/ WakeStep({1})
  \/ PersistAffection(1)
  \/ CompressStep({1}, Completions)
  \/ GiftStep({1}, {SmallBoost})
  \/ SweepStep
SpecWindow ==
  InitCreated(Budget(WindowReqs, WindowGifts, 0, WindowHours))
    /\ [][NextWindow]_vars

\* ---------------------------------------------------- scenario: snapshot
\* On the created agent: long messages one at a time and their compressions
\* while the day changes; then a caller copies the agent's state, restores
\* a new agent from the copy and sends the messages left to the new agent.
SnapReqs  == 3
SnapHours == 2
NextSnapshot ==
  \/ Tick
  \/ snap.pc = "none" /\ TurnStep({1}, {1}, {LongWords})
  \/ PersistAffection(1)
  \/ CompressStep({1}, Completions)
  \/ \E c \in Played : CopyState(c)
  \/ RestoreState
  \/ \E w \in MessageWords : RestoredTurn(w)
  \/ RestoredReply
SpecSnapshot ==
  InitCreated(Budget(SnapReqs, 0, 0, SnapHours)) /\ [][NextSnapshot]_vars


\* ------------------------------------------------------ scenario: lookup
\* On the created agent: short messages one at a time, addressed to the
\* created character or to a character that has no row, while the hours
\* pass and the idle sweep hibernates the agent.
LookupReqs  == 3
LookupHours == 4
NextLookup ==
  \/ Tick
  \/ \E c \in Chars : SendMessage(1, c, 1, ShortWords)
  \/ ChatReply(1)
  \/ WakeStep({1})
  \/ SweepStep
SpecLookup ==
  InitCreated(Budget(LookupReqs, 0, 0, LookupHours)) /\ [][NextLookup]_vars

\* ------------------------------------------------------- scenario: evict
\* On two created agents: short messages one at a time to either character
\* while the hours pass and the idle sweep hibernates the agents; a request
\* that finds its character not resident wakes it.  In the second
\* specification one collaborator call may fail.
EvictReqs   == 2
EvictHours  == 3
EvictFaults == 1
NextEvict ==
  \/ Tick
  \/ \E c \in Chars : SendMessage(1, c, 1, ShortWords)
  \/ ChatReply(1)
  \/ WakeStep({1})
  \/ SweepStep
SpecEvict ==
  InitTwo(Budget(EvictReqs, 0, 0, EvictHours)) /\ [][NextEvict]_vars
SpecEvictFault ==
  InitTwo(Budget(EvictReqs, 0, EvictFaults, EvictHours)) /\ [][NextEvict]_vars

\* ---------------------------------------------------- scenario: shutdown
\* On two created agents: short messages one at a time to either character
\* while the hours pass and the idle sweep runs; then the service shuts
\* down, with a sweep asleep or in the middle of a hibernation.  In the
\* first specification one collaborator call may fail.
ShutReqs   == 2
ShutHours  == 2
ShutFaults == 1
ShutdownStep ==
  \/ Shutdown
  \/ SweepCancelled
  \/ ShutdownDrain
  \/ ShutdownHibernated
NextShutdown ==
  \/ Tick
  \/ shut.pc = "idle" /\ \E c \in Chars : SendMessage(1, c, 1, ShortWords)
  \/ ChatReply(1)
  \/ WakeStep({1})
  \/ SweepStep
  \/ ShutdownStep
SpecShutdown ==
  InitTwo(Budget(ShutReqs, 0, ShutFaults, ShutHours)) /\ [][NextShutdown]_vars
SpecCancel ==
  InitTwo(Budget(ShutReqs, 0, 0, ShutHours)) /\ [][NextShutdown]_vars

\* ------------------------------------------------------- scenario: hours
\* On the created agent, with no request: the hours of a whole day pass and
\* the hourly cycle runs, or is missed, at each of them.
ClockHours == 24
NextHours ==
  \/ Tick
  \/ SchedulerFire
  \/ SchedulerQuery
  \/ SchedulerDiary
  \/ SchedulerProgress
  \/ SchedulerHibernated
SpecHours == InitCreated(Budget(0, 0, 0, ClockHours)) /\ [][NextHours]_vars

\* --------------------------------------------------- scenario: threshold
\* On the created agent: short, medium and long messages one at a time,
\* each followed by its compression, which yields a summary, when the reply
\* says so.
ThresholdReqs == 7
Summarized == {<<SummaryLine(TRUE), DeltaLine(<<Num(3)>>), ReasonLine>>}
NextThreshold ==
  \/ TurnStep({1}, {1}, {ShortWords, MediumWords, LongWords})
  \/ PersistAffection(1)
  \/ CompressStep({1}, Summarized)
SpecThreshold ==
  InitCreated(Budget(ThresholdReqs, 0, 0, 0)) /\ [][NextThreshold]_vars

\* ------------------------------------------- scenario: failing compression
\* On the created agent: long messages over two concurrent requests and
\* their compressions; one collaborator call may fail.
CompressFaultReqs == 3
CompressFaults    == 1
NextCompressFault ==
  \/ TurnStep(Slots, {1}, {LongWords})
  \/ \E m \in Slots : AcquireLock(m)
  \/ \E m \in Slots : PersistAffection(m)
  \/ CompressStep(Slots, Completions)
  \/ \E m \in Slots : FailCompression(m)
SpecCompressFault ==
  InitCreated(Budget(CompressFaultReqs, 0, CompressFaults, 0))
    /\ [][NextCompressFault]_vars

\* ------------------------------------------------------- scenario: guard
\* The failing-compression scenario under fair scheduling: the event loop
\* runs every task that is ready, and every awaited collaborator call
\* returns or raises, so each request's next step is eventually taken.
GuardReqs   == 3
GuardFaults == 2
RequestStep(m) ==
  \/ AcquireLock(m)
  \/ PersistAffection(m)
  \/ ChatReply(m)
  \/ StartCompression(m)
  \/ FailCompression(m)
  \/ \E l \in Completions : FinishCompression(m, l)
FairRequests == \A m \in Slots : WF_vars(RequestStep(m))
NextGuard ==
  \/ TurnStep(Slots, {1}, {LongWords})
  \/ \E m \in Slots : AcquireLock(m)
  \/ \E m \in Slots : PersistAffection(m)
  \/ CompressStep(Slots, Completions)
  \/ \E m \in Slots : FailCompression(m)
SpecGuard ==
  InitCreated(Budget(GuardReqs, 0, GuardFaults, 0))
    /\ [][NextGuard]_vars /\ FairRequests

\* ------------------------------------------------------- scenario: cycle
\* On two created agents, with no request: the hours pass to UTC midnight,
\* the idle sweep hibernates the agents or not, and the hourly cycle runs
\* over both pairs; two collaborator calls may fail.
CycleHours  == 2
CycleFaults == 2
NextCycle ==
  \/ Tick
  \/ SweepStep
  \/ SchedulerStep
SpecCycle == InitTwo(Budget(0, 0, CycleFaults, CycleHours)) /\ [][NextCycle]_vars

\* ------------------------------------------------------ scenario: shared
\* On the agent created by player 1: the hours pass, the idle sweep
\* hibernates it, player 2 creates an agent of the same character, and both
\* players send short messages, one request at a time.
SharedReqs  == 2
SharedHours == 2
NextShared ==
  \/ Tick
  \/ SweepStep
  \/ CreateStep({2})
  \/ TurnStep({1}, Players, {ShortWords})
  \/ WakeStep({1})
SpecShared ==
  InitCreated(Budget(SharedReqs, 0, 0, SharedHours)) /\ [][NextShared]_vars

\* ------------------------------------------------------ scenario: memory
\* On the created agent: short messages one at a time while the day changes
\* and the hourly cycle writes the diary; one collaborator call may fail.
MemoryReqs   == 2
MemoryHours  == 2
MemoryFaults == 1
NextMemory ==
  \/ Tick
  \/ TurnStep({1}, {1}, {ShortWords})
  \/ WakeStep({1})
  \/ SchedulerFire
  \/ SchedulerQuery
  \/ SchedulerDiary
  \/ SchedulerProgress
  \/ SchedulerHibernated
SpecMemory ==
  InitCreated(Budget(MemoryReqs, 0, MemoryFaults, MemoryHours))
    /\ [][NextMemory]_vars

\* ------------------------------------------------------- scenario: parse
\* On the created agent: long messages one at a time, each followed by its
\* compression, whose completion follows the asked format or not.
ParseReqs == 3
NextParse ==
  \/ TurnStep({1}, {1}, {LongWords})
  \/ PersistAffection(1)
  \/ CompressStep({1}, Completions \cup OddCompletions)
SpecParse == InitCreated(Budget(ParseReqs, 0, 0, 0)) /\ [][NextParse]_vars

\* ------------------------------------------------------- scenario: retry
\* On the created agent, with no request: the hours pass over two UTC
\* midnights, the idle sweep runs or not, and one collaborator call may
\* fail, so that a diary that failed in the first cycle is due again in the
\* second.  An hour passes only between cycles and sweeps: each ends within
\* the hour it started in.
RetryHours  == 26
RetryFaults == 1
TickBetween == sch.pc = "idle" /\ swp.pc = "sleep" /\ Tick
NextRetry ==
  \/ TickBetween
  \/ SweepStep
  \/ SchedulerStep
SpecRetry == InitCreated(Budget(0, 0, RetryFaults, RetryHours)) /\ [][NextRetry]_vars

\* ----------------------------------------------------- scenario: persist
\* On the agent created by player 1: both players send long messages to the
\* character, one at a time, each followed by a compression that stores a
\* delta; one collaborator call may fail.
PersistReqs   == 3
PersistFaults == 1
NextPersist ==
  \/ TurnStep({1}, Players, {LongWords})
  \/ PersistAffection(1)
  \/ CompressStep({1}, Summarized)
SpecPersist ==
  InitCreated(Budget(PersistReqs, 0, PersistFaults, 0)) /\ [][NextPersist]_vars

\* -------------------------------------------------------- scenario: zone
\* Player 1 creates the agent from a timezone east of UTC or from UTC and
\* sends short messages, while the hours pass over UTC midnight, the idle
\* sweep hibernates the agent and the hourly cycle runs.
Zones     == {0, 9}
ZoneReqs  == 1
ZoneHours == 2
NextZone ==
  \/ Tick
  \/ CreateAtStep({1}, Zones)
  \/ TurnStep({1}, {1}, {ShortWords})
  \/ WakeStep({1})
  \/ SweepStep
  \/ SchedulerStep
SpecZone == InitWith(Budget(ZoneReqs, 0, 0, ZoneHours)) /\ [][NextZone]_vars

\* ------------------------------------------------------------------ claims
InTurn(m)     == req[m].pc \in {"progress", "chat"}
InCompress(m) == req[m].pc = "compress"
Conversation(s) == <<s.messages_for_compression, s.conversation_summary>>

\* a request inside process_message or compress holds the agent's lock
Exclusive ==
  \A m \in Slots : InTurn(m) \/ InCompress(m) => lock[req[m].inst] = m

\* a compression in flight sees whole turns only: its agent's buffer does
\* not end with a player message whose reply is still to come
WholeTurns ==
  \A m \in Slots :
     InCompress(m) =>
        LET b == agents[req[m].inst].messages_for_compression
        IN b = <<>> \/ b[Len(b)].sender = "character"

\* while a request is inside its operation no other request's step writes
\* the buffer or the summary of its agent
Isolated ==
  \A m \in Slots :
     InTurn(m) \/ InCompress(m) =>
        \A k \in Slots \ {m} :
           req'[k] # req[k] =>
              Conversation(agents'[req[m].inst])
                = Conversation(agents[req[m].inst])

\* C1: compress and process_message of one agent never run concurrently:
\* whoever is inside either operation holds the agent's lock, no step of
\* another request changes the compression buffer or the summary meanwhile
\* (so the final values are those of a serial order), and a compression
\* never reads a buffer holding half a turn.
SerialTurns == [][Exclusive' /\ WholeTurns' /\ Isolated]_vars

\* a turn waits on the lock of an agent whose compression is in flight
TurnWaitsForCompress ==
  \E m, k \in Slots :
     /\ req[m].pc = "compress"
     /\ req[k].pc = "turn_wait"
     /\ req[k].inst = req[m].inst

\* C2: every write of an agent's state is made by the task that holds the
\* agent's lock; in particular, while a request holds the lock across a
\* suspension, no step of another task changes that agent's state.
WritesUnderLock ==
  [][\A i \in 1..Len(agents) :
        lock[i] # 0 /\ req'[lock[i]] = req[lock[i]] => agents'[i] = agents[i]]_vars

InUse(i) ==
  \/ \E c \in Chars : active[c] = i
  \/ \E m \in Slots : req[m].pc # "idle" /\ req[m].inst = i

\* the objects of character c that are in use and were never exported
LiveAgents(c) ==
  {i \in 1..Len(agents) :
     agents[i].character_id = c /\ InUse(i) /\ i \notin hib[c].agents}

\* C3: at most one live agent object exists per character, whatever the
\* interleaving of get_or_create_agent calls.
OneLiveAgent == \A c \in Chars : Cardinality(LiveAgents(c)) <= 1

\* C4: once an object has been exported and removed, no process_message
\* or compress step runs on it.
ExportedIsTerminal ==
  [][\A m \in Slots :
        req[m].pc # "idle" /\ req[m].inst \in hib[req[m].c].agents
           => req'[m] = req[m]]_vars

\* get_or_create_agent of request m has just restored a new object from the
\* row that the last hibernation of the character left
WokenFromExport(m) ==
  /\ req[m].pc = "load"
  /\ req'[m].pc = "clear"
  /\ hib[req[m].c].done
  /\ hib[req[m].c].p = req[m].p
  /\ db[req[m].c][req[m].p] = hib[req[m].c].row

\* the fields of the hibernation payload and the two counters saved with it
Saved(s) ==
  [ messages_today           |-> s.messages_today,
    messages_for_compression |-> s.messages_for_compression,
    today_date               |-> s.today_date,
    backstory                |-> s.backstory,
    conversation_summary     |-> s.conversation_summary,
    last_compression_at      |-> s.last_compression_at,
    pending_affection_delta  |-> s.pending_affection_delta,
    affection_level          |-> s.affection_level,
    total_messages           |-> s.total_messages ]

\* C9: hibernating an agent and waking it through get_or_create_agent gives
\* an agent whose window, buffer, date, backstory summary, conversation
\* summary, compression time, pending delta, affection level and message
\* total equal the values exported at hibernation.
PayloadRoundTrip ==
  [][\A m \in Slots :
        WokenFromExport(m) =>
           Saved(agents'[req'[m].inst]) = Saved(hib[req[m].c].state)]_vars

\* an agent has been woken from an export that carried a pending delta and a
\* summary, and its row is still as the hibernation left it
WokenWithDelta ==
  \E m \in Slots :
     /\ req[m].pc = "clear"
     /\ hib[req[m].c].done
     /\ db[req[m].c][req[m].p] = hib[req[m].c].row
     /\ agents[req[m].inst].pending_affection_delta # 0
     /\ agents[req[m].inst].conversation_summary # EmptySummary

\* C10: the woken agent's whole state, staged diary, daily message count
\* and player timezone included, equals the state exported at hibernation.
StateRoundTrip ==
  [][\A m \in Slots :
        WokenFromExport(m) => agents'[req'[m].inst] = hib[req[m].c].state]_vars

\* request m enters process_message on object i in this step and stays in it
TurnEnters(m, i) ==
  /\ req[m].pc \in {"idle", "clear", "turn_wait"}
  /\ req'[m].pc \in {"progress", "chat"}
  /\ req'[m].inst = i

\* the compression of request m on object i ends in this step
CompressEnds(m, i) ==
  /\ req[m].pc = "compress"
  /\ req[m].inst = i
  /\ req'[m].pc = "idle"

\* the entering turn finds a new local date
EntersNewDay(i) ==
  IsRollover(agents[i], PlayerDate(now, PlayerTimezone(agents[i])))

\* the pending delta of object i is added, clamped, and zeroed in this step
DeltaApplied(i) ==
  /\ agents'[i].affection_level =
        ClampAffection(agents[i].affection_level
                        + agents[i].pending_affection_delta)
  /\ agents'[i].pending_affection_delta = 0

DeltaKept(i) ==
  agents'[i].pending_affection_delta = agents[i].pending_affection_delta

DeltaZeroed(i) ==
  /\ agents'[i].pending_affection_delta = 0
  /\ agents'[i].affection_level = agents[i].affection_level

ExactlyOnce ==
  [][/\ \A m \in Slots, i \in 1..Len(agents) :
          TurnEnters(m, i) /\ ~EntersNewDay(i) =>
             /\ DeltaApplied(i)
             /\ req'[m].afc = agents[i].pending_affection_delta
     /\ \A m \in Slots :
          req[m].pc = "chat" /\ req'[m].pc # "chat"
            /\ agents'[req[m].inst] # agents[req[m].inst] =>
               LET w == agents'[req[m].inst].messages_today
               IN w[Len(w)].sender = "character" /\ w[Len(w)].ac = req[m].afc
     /\ \A i \in 1..Len(agents) :
          agents[i].pending_affection_delta = 0
            /\ agents'[i].pending_affection_delta # 0 =>
               \E m \in Slots : CompressEnds(m, i)]_vars

\* the turn before applied a delta and its compression has not started;
\* the turn now in flight found none and reports 0
SecondTurnReportsZero ==
  \E m, k \in Slots :
     /\ req[m].pc = "chat" /\ req[m].afc = 0
     /\ req[k].pc = "background" /\ req[k].inst = req[m].inst
     /\ LET w == agents[req[m].inst].messages_today
        IN /\ Len(w) >= 2
           /\ w[Len(w) - 1].sender = "character"
           /\ w[Len(w) - 1].ac # 0

\* the last messages of ms, at most WindowCap of them
Newest(ms) ==
  IF Len(ms) <= WindowCap THEN ms
  ELSE SubSeq(ms, Len(ms) - WindowCap + 1, Len(ms))

\* new is old with k messages appended and the oldest evicted, or the k
\* messages alone after a reset of the day
Slides(old, new, k) ==
  /\ k <= Len(new)
  /\ LET added == SubSeq(new, Len(new) - k + 1, Len(new))
     IN /\ \A a \in 1..k, b \in 1..Len(old) : added[a].id > old[b].id
        /\ new = Newest(old \o added) \/ new = added

FirstRestoredTurn ==
  /\ snap.pc = "restored"
  /\ snap'.pc = "chat"
  /\ agents[snap.dst] = snap.taken

\* C11: an agent restored from the dict get_state returned gives on its
\* next process_message the state and the reported affection change that
\* the agent it was copied from would give on the same message at the same
\* time, and no call on the restored agent changes the returned dict.
RestoreOfExport ==
  [][/\ FirstRestoredTurn =>
          LET s == snap.taken
              today == PlayerDate(now, PlayerTimezone(s))
              w == agents'[snap.dst].messages_today
          IN /\ agents'[snap.dst] = TurnStart(s, 1, today, w[Len(w)])
             /\ snap'.afc = TurnDelta(s, today)
     /\ snap.pc # "none" => snap'.dict = snap.taken]_vars

\* a state dict without one of the newer keys
LacksNewerField(s) ==
  s.messages_today_count = Missing \/ s.player_info = Missing

\* request m records the player's message of its turn in this step
RecordsPlayer(m) ==
  /\ req[m].pc \in {"idle", "clear", "turn_wait", "progress"}
  /\ req'[m] # req[m]
  /\ nMsg' = nMsg + 1

\* C12: process_message on an agent restored from a state dict that lacks
\* the newer keys (as get_or_create_agent builds it) completes: having
\* recorded the player's message the turn goes on to the reply.
WokenTurnCompletes ==
  [][\A m \in Slots, i \in 1..Len(agents) :
        RecordsPlayer(m) /\ LacksNewerField(agents[i]) /\ agents'[i] # agents[i]
           => req'[m].pc = "chat" /\ req'[m].inst = i]_vars

\* a request arrives in this step and get_or_create_agent finds its
\* character resident: no request goes to load the row
ResidentHit ==
  /\ left'.reqs = left.reqs - 1
  /\ \A m \in Slots : req'[m].pc = "load" => req'[m] = req[m]

\* the hit on character c returns the registered object with its state as
\* it was: the turn works on that object and that state, nothing is loaded,
\* constructed, registered or written to the table, and no other
\* character's timestamp changes
HitReturnsResident(c) ==
  LET i == active[c]
      s == agents[i]
      today == PlayerDate(now, PlayerTimezone(s))
      w == agents'[i].messages_today
      moved == {m \in Slots : req'[m] # req[m]}
  IN /\ Resident(c)
     /\ active' = active /\ db' = db /\ hib' = hib
     /\ Len(agents') = Len(agents)
     /\ \A j \in 1..Len(agents) : j # i => agents'[j] = agents[j]
     /\ lastAct' = [lastAct EXCEPT ![c] = now]
     /\ \A m \in moved : req'[m].inst = i /\ req'[m].c = c
     /\ IF \E m \in moved : req'[m].pc = "turn_wait"
        THEN agents'[i] = s
        ELSE IF \E m \in moved : req'[m].pc = "progress"
        THEN agents'[i] =
                ApplyPending(Rollover([s EXCEPT !.player_name =
                                                   s.player_address], today))
        ELSE agents'[i] = TurnStart(s, s.player_address, today, w[Len(w)])

\* C13 as stated: get_or_create_agent on a resident character returns the
\* same object with its state as the last turn left it, loads and clears
\* nothing, and changes nothing but that character's last_activity.
HitChangesOnlyActivity ==
  [][ResidentHit =>
        /\ \E c \in Chars : HitReturnsResident(c)
        /\ wasActive' = wasActive]_vars

\* C13 amended: ... and changes nothing but that character's last_activity
\* and the object's was_active flag, which it sets.
HitChangesActivityAndFlag ==
  [][ResidentHit =>
        \E c \in Chars :
           /\ HitReturnsResident(c)
           /\ wasActive' = [wasActive EXCEPT ![active[c]] = TRUE]]_vars

\* a woken agent has been hit since: it is registered, was never exported,
\* and its flag is set again while a turn is in flight on it
WokenAgentHit ==
  \E m \in Slots, c \in Chars :
     /\ Resident(c) /\ hib[c].done /\ active[c] \notin hib[c].agents
     /\ wasActive[active[c]]
     /\ req[m].pc = "chat" /\ req[m].inst = active[c]

\* the load of request m returns in this step and finds no row
LoadFindsNoRow(m) ==
  /\ req[m].pc = "load"
  /\ req'[m] # req[m]
  /\ ~db[req[m].c][req[m].p].present

\* C14: get_or_create_agent for a character that is not resident and has no
\* row fails (the request ends) and leaves the resident map, the activity
\* timestamps, the table and the agent objects as they were.
NotInitializedChangesNothing ==
  [][\A m \in Slots :
        LoadFindsNoRow(m) =>
           /\ req'[m] = IdleReq
           /\ active' = active /\ lastAct' = lastAct /\ db' = db
           /\ agents' = agents /\ wasActive' = wasActive]_vars

\* requests have ended without recording a message or constructing an
\* object while character 1 is resident: they found no row
NotInitializedSeen ==
  /\ Quiet
  /\ left.reqs < LookupReqs
  /\ nMsg = 1 /\ Len(agents) = 1
  /\ Resident(1) /\ ~Resident(2)

Range(q) == {q[k] : k \in 1..Len(q)}

\* the characters a sweep has in hand
SweepTodo(w) ==
  IF w.pc = "hibernate" THEN {w.out.c} \cup Range(w.todo) ELSE {}

\* the payload and the counters of row r are those exported from state s
RowHolds(r, s) ==
  /\ r.present
  /\ r.hibernate_data = HibernateData(s)
  /\ r.affection_level = s.affection_level
  /\ r.total_messages = s.total_messages

\* the write of the sweep's hibernation returns in this step
SweepWriteDone == swp.pc = "hibernate" /\ swp' # swp /\ left' = left

\* C15: a sweep takes every agent whose last activity is older than the
\* idle timeout; when the write of an agent's hibernation returns, the agent
\* is out of active_agents and last_activity and its row holds the exported
\* state; the next get_or_create_agent for it loads the row once, restores
\* a new agent from it and registers it.
EvictedThenReloaded ==
  [][/\ swp.pc = "sleep" /\ swp'.pc = "hibernate" => SweepTodo(swp') = IdleChars
     /\ SweepWriteDone =>
          LET c == swp.out.c
          IN /\ active'[c] = 0 /\ lastAct'[c] = NoDate
             /\ RowHolds(db'[c][swp.out.p], swp.state)
             /\ SweepTodo(swp') = {k \in Range(swp.todo) : active[k] # 0}
     /\ \A m \in Slots :
          /\ req[m].pc = "idle" /\ req'[m].pc = "load" => active[req'[m].c] = 0
          /\ req[m].pc = "load" /\ req'[m] # req[m]
               /\ db[req[m].c][req[m].p].present =>
                  /\ req'[m].pc = "clear"
                  /\ Len(agents') = Len(agents) + 1
                  /\ agents'[req'[m].inst] =
                        TransformState(db[req[m].c][req[m].p], req[m].c,
                                       req[m].p)
          /\ req[m].pc = "clear" /\ req'[m] # req[m] =>
                  /\ active'[req[m].c] = req[m].inst
                  /\ lastAct'[req[m].c] = now]_vars

\* both agents were hibernated by a sweep and one of them has been woken by
\* a request and is resident again
EvictedAgentBack ==
  /\ hib[1].done /\ hib[2].done
  /\ \E c \in Chars : Resident(c) /\ active[c] \notin hib[c].agents
  /\ \E c \in Chars : ~Resident(c)

\* the write of the sweep's hibernation fails in this step
SweepWriteFails ==
  swp.pc = "hibernate" /\ swp' # swp /\ left'.faults = left.faults - 1

\* C16: when the write of one idle agent's hibernation fails, the agent
\* stays registered with its state and its last activity unchanged, the
\* sweep goes on with the other idle agents it took (each is removed when
\* its write returns), and an agent that was idle before the failure is
\* idle after it, so the next sweep takes it again.
FailedAgentStays ==
  [][/\ SweepWriteFails =>
          /\ active' = active /\ lastAct' = lastAct
          /\ agents' = agents /\ db' = db
          /\ SweepTodo(swp') = {k \in Range(swp.todo) : active[k] # 0}
          /\ swp.out.c \in IdleChars => swp.out.c \in IdleChars'
     /\ swp.pc = "sleep" /\ swp'.pc = "hibernate" => SweepTodo(swp') = IdleChars
     /\ SweepWriteDone =>
          /\ active'[swp.out.c] = 0
          /\ RowHolds(db'[swp.out.c][swp.out.p], swp.state)]_vars

\* no request was made, the one failure has happened, and a sweep is over
\* that left character 1 registered and idle and hibernated character 2
FailedOneHibernatedOther ==
  /\ left.reqs = EvictReqs /\ left.faults = 0
  /\ swp.pc = "sleep"
  /\ Resident(1) /\ 1 \in IdleChars /\ ~hib[1].done
  /\ ~Resident(2) /\ hib[2].done

\* the row of the object that was registered under c when shutdown began
\* holds what that object's state exports now
BeganPersisted(c) ==
  LET s == agents[shut.began[c]]
  IN RowHolds(db[c][s.player_address], s)

\* C17: when shutdown has returned, the sweep task is cancelled, no agent
\* is registered, and the row of every agent that was registered when
\* shutdown began holds the payload and the counters of its latest state.
ShutdownLosesNothing ==
  shut.pc = "done" =>
     /\ swp.pc = "cancelled"
     /\ \A c \in Chars : active[c] = 0 /\ lastAct[c] = NoDate
     /\ \A c \in Chars : shut.began[c] # 0 => BeganPersisted(c)

\* C18: a sweep cancelled inside the write of an agent's hibernation leaves
\* that agent in active_agents and last_activity; at no step of the
\* shutdown is an id in one of the two maps only, or removed without its
\* row holding its exported state; and when shutdown returns every agent
\* that was registered when it began has been hibernated.
CancelledSweepTolerated ==
  [][/\ swp.pc = "cancel_write" /\ swp'.pc = "cancelled" =>
          /\ active' = active /\ lastAct' = lastAct /\ agents' = agents
          /\ Resident(swp.out.c) => shut.began[swp.out.c] = active[swp.out.c]
     /\ shut.pc # "idle" =>
          \A c \in Chars :
             /\ active'[c] = 0 <=> lastAct'[c] = NoDate
             /\ active[c] # 0 /\ active'[c] = 0 =>
                   LET s == agents[active[c]]
                   IN RowHolds(db'[c][s.player_address], s)
     /\ shut.pc # "done" /\ shut'.pc = "done" =>
          \A c \in Chars :
             shut.began[c] # 0 => active'[c] = 0 /\ BeganPersisted(c)']_vars

\* shutdown has returned after cancelling a sweep inside the write for an
\* agent, and the drain has hibernated that agent
DrainedAfterCancelledWrite ==
  /\ shut.pc = "done"
  /\ swp.pc = "cancelled" /\ swp.out.c # 0
  /\ shut.began[swp.out.c] # 0
  /\ hib[swp.out.c].done /\ shut.began[swp.out.c] \in hib[swp.out.c].agents

\* in this step process_message ran on object i from its start and recorded
\* the player's message, the newest one, at the end of both lists
PlayerRecorded(i) ==
  /\ nMsg' = nMsg + 1
  /\ \A m \in Slots : req[m].pc # "progress"
  /\ agents'[i] # agents[i]
  /\ LET b == agents'[i].messages_for_compression
     IN b # <<>> /\ b[Len(b)].id = nMsg' /\ b[Len(b)].sender = "player"

\* C19: a turn that starts on a state whose today_date is set and differs
\* from the player's date stages the old date, summary, buffer and daily
\* count (0 when the state has none) as the pending diary, and leaves the
\* new date, an empty summary, and a window and a buffer that hold this
\* turn's message only, with the daily counter counting that message.
MidnightTurnStages ==
  [][\A i \in DOMAIN agents :
       LET s == agents[i]
           t == agents'[i]
           today == PlayerDate(now, IF s.player_info = Missing
                                    THEN 0 ELSE s.player_info)
       IN PlayerRecorded(i) /\ s.today_date # NoDate /\ s.today_date # today =>
            /\ t.pending_diary_date = s.today_date
            /\ t.pending_diary_summary = s.conversation_summary
            /\ t.pending_diary_messages = s.messages_for_compression
            /\ t.pending_diary_message_count =
                  (IF s.messages_today_count = Missing
                   THEN 0 ELSE s.messages_today_count)
            /\ t.today_date = today
            /\ t.conversation_summary = EmptySummary
            /\ Len(t.messages_today) = 1
            /\ t.messages_today = t.messages_for_compression
            /\ t.messages_today[1].id = nMsg'
            /\ t.messages_today_count = 1]_vars

\* a resident agent in the turn that found the date changed: yesterday's
\* messages are staged and the buffer holds the player's message only
RolledOverTurn ==
  \E c \in Chars :
     /\ Resident(c)
     /\ \E m \in Slots : req[m].pc = "chat" /\ req[m].inst = active[c]
     /\ LET s == agents[active[c]]
        IN /\ s.pending_diary_date = s.today_date - 1
           /\ s.pending_diary_date = PlayerDate(StartHour, 0)
           /\ s.pending_diary_messages # <<>>
           /\ Len(s.messages_for_compression) = 1
           /\ s.messages_for_compression[1].sender = "player"
           /\ s.messages_today_count = 1

\* the messages a summary digests
Digested(summary) == summary \ {0}

\* the messages of the day in progress on a state, and the staged ones
DayInput(s) == Ids(s.messages_for_compression) \cup Digested(s.conversation_summary)
StagedInput(s) ==
  Ids(s.pending_diary_messages) \cup Digested(s.pending_diary_summary)

\* the messages that are input of the k-th diary generation
DiaryInput(k) == diaries[k].messages \cup Digested(diaries[k].summary)

\* C20: a scheduler step on a state with a staged diary leaves the staged
\* fields as they are or clears them; no message is input of two diary
\* generations; and a step of the scheduler or a date change drops no
\* message of the day in progress that is not staged, written to a diary
\* or still in the day's input afterwards.
EachMessageInOneDiary ==
  [][/\ \A i \in DOMAIN agents :
          /\ (sch' # sch /\ req' = req
                /\ agents[i].pending_diary_date # NoDate) =>
                \/ PendingDiary(agents'[i]) = PendingDiary(agents[i])
                \/ PendingDiary(agents'[i]) = PendingDiary(ClearPending(agents[i]))
          /\ sch' # sch \/ agents'[i].today_date # agents[i].today_date =>
                DayInput(agents[i]) \subseteq
                   DayInput(agents'[i]) \cup StagedInput(agents'[i])
                   \cup UNION {DiaryInput(k)' : k \in 1..Len(diaries')}
     /\ \A j, k \in 1..Len(diaries') :
          j # k => DiaryInput(j)' \cap DiaryInput(k)' = {}]_vars

\* the hourly job starts in this step
CycleStarts == sch.pc = "idle" /\ sch'.pc = "query"

\* C21: the cycle that starts at UTC hour h selects offset h when h <= 14
\* and h - 24 when h > 14: +9 at hour 9, -7 at hour 17, and always an
\* offset in -12..14.
OffsetOfHour ==
  [][CycleStarts =>
       LET h == now % 24
       IN /\ h <= 14 => sch'.tz = h
          /\ h > 14 => sch'.tz = h - 24
          /\ h = 9 => sch'.tz = 9
          /\ h = 17 => sch'.tz = -7
          /\ sch'.tz \in -12..14]_vars

\* the cycle of UTC hour 17 is querying the rows of offset -7
HourSeventeen == sch.pc = "query" /\ now % 24 = 17 /\ sch.tz = -7

\* C28: the offset o selected by the cycle that starts at UTC hour h has
\* just reached local midnight: (h + o) mod 24 = 0, that is, with the date
\* of _get_player_date, the date at offset o has changed within the hour.
SelectedOffsetAtMidnight ==
  [][CycleStarts =>
       /\ (now + sch'.tz) % 24 = 0
       /\ PlayerDate(now, sch'.tz) = PlayerDate(now - 1, sch'.tz) + 1]_vars

\* words of the summary and of the buffered texts, each text counted apart
WordsApart(s) ==
  (IF s.conversation_summary = {} THEN 0 ELSE SummaryWords)
  + SumWords(s.messages_for_compression)

\* words of the summary and the buffered texts joined with nothing between
\* them: the words at each joint count as one
WordsJoined(s) ==
  LET k == (IF s.conversation_summary = {} THEN 0 ELSE 1)
           + Len(s.messages_for_compression)
  IN IF k = 0 THEN 0 ELSE WordsApart(s) - (k - 1)

\* request m's turn records its reply in this step and returns
ReplyReturns(m) ==
  req[m].pc = "chat" /\ req'[m].pc # "chat" /\ nMsg' = nMsg + 1

\* C22 as stated: the reply's should_compress is true exactly when the
\* buffer then holds 15 messages or more, or the words of the summary and
\* of the buffered texts, times 1.3, exceed 800.
FlagByWordsApart ==
  [][\A m \in Slots :
       ReplyReturns(m) =>
         LET t == agents'[req[m].inst]
         IN req'[m].pc = "background" <=>
              \/ Len(t.messages_for_compression) >= 15
              \/ WordsApart(t) * 13 > 800 * 10]_vars

\* C22 amended: the words are those of the summary and the buffered texts
\* joined without a separator.
FlagByWordsJoined ==
  [][\A m \in Slots :
       ReplyReturns(m) =>
         LET t == agents'[req[m].inst]
         IN req'[m].pc = "background" <=>
              \/ Len(t.messages_for_compression) >= 15
              \/ WordsJoined(t) * 13 > 800 * 10]_vars

\* a turn has returned should_compress false with three buffered messages
\* whose words counted apart are over the budget and joined are not
ThreeJoinedUnderBudget ==
  /\ Quiet
  /\ Resident(1)
  /\ LET s == agents[active[1]]
     IN /\ Len(s.messages_for_compression) = 3
        /\ s.messages_for_compression[3].sender = "character"
        /\ WordsApart(s) * 13 > 800 * 10
        /\ WordsJoined(s) * 13 <= 800 * 10

\* the completion call of request m's compression fails in this step
CompletionFails(m) ==
  req[m].pc = "compress" /\ left'.faults < left.faults

\* C23: when the completion call of a compression fails, the run returns
\* (the background task ends), the agent's state, pending_affection_delta,
\* buffer and summary included, is what it was, and the lock is free.
FailedCompressionKeepsState ==
  [][\A m \in Slots :
       CompletionFails(m) =>
         LET i == req[m].inst
         IN /\ req'[m].pc = "idle"
            /\ agents'[i].pending_affection_delta =
                  agents[i].pending_affection_delta
            /\ agents'[i].messages_for_compression =
                  agents[i].messages_for_compression
            /\ agents'[i].conversation_summary = agents[i].conversation_summary
            /\ agents' = agents
            /\ lock[i] = m /\ lock'[i] = 0]_vars

\* two turns have been answered, the first compression stored a delta and
\* the second one failed: the delta is still pending
FailedAfterStoredDelta ==
  /\ Quiet
  /\ left.faults = 0
  /\ lock[1] = 0
  /\ Len(agents[1].messages_today) = 5
  /\ agents[1].messages_for_compression = <<>>
  /\ agents[1].pending_affection_delta # 0

\* the first k elements of a sequence
Prefix(q, k) == [j \in 1..k |-> q[j]]

\* C24: while a cycle works on a pair, the pairs taken so far are those of
\* the query's list up to that pair, in order, and all before it have been
\* counted as success or failure; when the cycle has ended every pair of
\* the list has been taken once, in order, and success count plus failure
\* count is the length of the list.
EveryPairAttemptedOnce ==
  /\ sch.pc \in {"load", "clear", "diary", "progress", "hibernate"} =>
        /\ Len(sch.tried) = sch.ok + sch.fail + 1
        /\ Len(sch.tried) <= Len(sch.all)
        /\ sch.tried = Prefix(sch.all, Len(sch.tried))
        /\ sch.c = sch.tried[Len(sch.tried)][1]
  /\ sch.pc = "idle" =>
        /\ sch.tried = sch.all
        /\ sch.ok + sch.fail = Len(sch.all)

\* a cycle over two pairs has ended: the first pair failed, the second has
\* its diary
SecondPairAfterFailure ==
  /\ sch.pc = "idle"
  /\ Len(sch.all) = 2
  /\ sch.fail = 1 /\ sch.ok = 1
  /\ Len(diaries) = 1
  /\ diaries[1].c = sch.all[2][1]

\* request m is inside the critical section of a turn or of a compression
InSection(m) == InTurn(m) \/ InCompress(m)

\* C25: of the requests of one character-player pair at most one is inside
\* process_message's critical section or the pair's compression at a time:
\* a second turn of the pair changes nothing before the first has returned
\* and a compression in progress has released the lock.
TurnsOfPairSerialized ==
  \A m, k \in Slots :
     m # k /\ req[m].c = req[k].c /\ req[m].p = req[k].p =>
        ~(InSection(m) /\ InSection(k))

\* request m arrives in this step for a character that has a resident agent
ArrivesAtResident(m) ==
  /\ req[m].pc = "idle" /\ req'[m].pc # "idle"
  /\ Resident(req'[m].c)

\* C26: a request for a character with a resident agent, whoever the player
\* is, gets that resident object: no row is loaded, no object is
\* constructed and the registration stays as it is.
ResidentSharedByPlayers ==
  [][\A m \in Slots :
       ArrivesAtResident(m) =>
         /\ req'[m].pc # "load"
         /\ req'[m].inst = active[req'[m].c]
         /\ Len(agents') = Len(agents)
         /\ active' = active
         /\ db' = db]_vars

\* a player's turn runs on the resident agent of another player's session
\* although the player has a persisted record of the character
TurnOnOthersSession ==
  \E m \in Slots :
     /\ req[m].pc = "chat"
     /\ req[m].inst = active[req[m].c]
     /\ agents[req[m].inst].player_address # req[m].p
     /\ db[req[m].c][req[m].p].present

\* the diary lookup of request m's turn fails in this step
LookupFails(m) ==
  req[m].pc = "chat" /\ req'[m] # req[m] /\ req'[m].lookup = "failed"

\* C27: a turn whose embedding call or diary search fails goes on with no
\* memories and returns its reply: the character's message is recorded on
\* the turn's agent, the turn's counters advance and the lock is released.
LookupFailureKeepsTurn ==
  [][\A m \in Slots :
       LookupFails(m) =>
         LET i == req[m].inst
             b == agents'[i].messages_for_compression
         IN /\ req'[m].mem = {}
            /\ req'[m].pc \in {"idle", "background"}
            /\ nMsg' = nMsg + 1
            /\ b # <<>>
            /\ b[Len(b)].sender = "character" /\ b[Len(b)].id = nMsg'
            /\ agents'[i].messages_today_count =
                  agents[i].messages_today_count + 1
            /\ lock'[i] = 0]_vars

\* a turn has been answered after its diary lookup failed although the
\* character has a diary entry
AnsweredWithoutMemories ==
  \E m \in Slots :
     /\ req[m].pc = "idle"
     /\ req[m].lookup = "failed"
     /\ DiariesOf(1) # {}
     /\ \E i \in 1..Len(agents) :
          LET b == agents[i].messages_for_compression
          IN b # <<>> /\ b[Len(b)].sender = "character" /\ b[Len(b)].id = nMsg

\* request m's compression ends in this step
CompressReturns(m) == req[m].pc = "compress" /\ req'[m].pc = "idle"

\* C29: a compression changes, of its agent's state, nothing but the
\* summary, the compression buffer, last_compression_at and the pending
\* delta; the affection level, the window, the counters, the date and the
\* staged diary stay as they are, and so do the other agents and the table.
CompressChangesFourFields ==
  [][\A m \in Slots :
       CompressReturns(m) =>
         LET i == req[m].inst
             s == agents[i]
             t == agents'[i]
         IN /\ t.affection_level = s.affection_level
            /\ t.messages_today = s.messages_today
            /\ t.total_messages = s.total_messages
            /\ t.messages_today_count = s.messages_today_count
            /\ t.today_date = s.today_date
            /\ PendingDiary(t) = PendingDiary(s)
            /\ t = [s EXCEPT
                      !.conversation_summary = t.conversation_summary,
                      !.messages_for_compression = t.messages_for_compression,
                      !.last_compression_at = t.last_compression_at,
                      !.pending_affection_delta = t.pending_affection_delta]
            /\ \A j \in 1..Len(agents) : j # i => agents'[j] = agents[j]
            /\ Len(agents') = Len(agents)
            /\ db' = db]_vars

\* a compression has stored a delta that no turn has applied yet: the level
\* of the agent and of its row is still the initial one
DeltaStoredNotApplied ==
  /\ Resident(1)
  /\ Quiet
  /\ LET s == agents[active[1]]
     IN /\ s.pending_affection_delta # 0
        /\ s.conversation_summary # {}
        /\ s.messages_for_compression = <<>>
        /\ s.affection_level = InitAffection
        /\ db[1][s.player_address].affection_level = InitAffection

\* the tokens of a completion in reading order, each AFFECTION_DELTA: prefix
\* a Marker
RECURSIVE Flat(_)
Flat(lines) ==
  IF lines = <<>> THEN <<>>
  ELSE (IF Head(lines).k = "AFFECTION_DELTA:" THEN <<Marker>> ELSE <<>>)
       \o Head(lines).toks \o Flat(Tail(lines))

\* the first number after the first Marker of a token sequence
RECURSIVE AfterMarker(_)
AfterMarker(toks) ==
  IF toks = <<>> THEN <<>>
  ELSE IF Head(toks) = Marker THEN Tail(toks)
  ELSE AfterMarker(Tail(toks))

Clamp5(v) == IF v > 5 THEN 5 ELSE IF v < -5 THEN -5 ELSE v

FirstAfterMarker(lines) ==
  LET n == FirstNumber(AfterMarker(Flat(lines)))
  IN IF n.found THEN Clamp5(n.val) ELSE 0

\* the first number of the last line that starts with AFFECTION_DELTA: and
\* holds a number
RECURSIVE LastDeltaLine(_)
LastDeltaLine(lines) ==
  IF lines = <<>> THEN 0
  ELSE LET l == lines[Len(lines)]
           n == FirstNumber(l.toks)
       IN IF l.k = "AFFECTION_DELTA:" /\ n.found THEN Clamp5(n.val)
          ELSE LastDeltaLine(SubSeq(lines, 1, Len(lines) - 1))

\* the pending delta of every agent object is within -5..5
DeltaInRange ==
  \A i \in 1..Len(agents) : agents[i].pending_affection_delta \in -5..5

\* C30 as stated: the pending delta is always within -5..5, and a
\* compression that receives a completion stores the first integer found
\* after AFFECTION_DELTA:, clamped, or 0 when there is none, and returns.
StoresFirstAfterMarker ==
  [][/\ DeltaInRange /\ DeltaInRange'
     /\ \A m \in Slots :
          CompressReturns(m) /\ req'[m].lines # <<>> =>
             /\ agents'[req[m].inst].pending_affection_delta =
                   FirstAfterMarker(req'[m].lines)
             /\ lock'[req[m].inst] = 0]_vars

\* C30 amended: the stored value is the first integer of the last line that
\* starts with AFFECTION_DELTA: and holds an integer.
StoresLastDeltaLine ==
  [][/\ DeltaInRange /\ DeltaInRange'
     /\ \A m \in Slots :
          CompressReturns(m) /\ req'[m].lines # <<>> =>
             /\ agents'[req[m].inst].pending_affection_delta =
                   LastDeltaLine(req'[m].lines)
             /\ lock'[req[m].inst] = 0]_vars

\* a compression has received a completion with two delta lines and stored
\* the number of the second
SecondDeltaLineStored ==
  \E m \in Slots :
     /\ req[m].pc = "idle"
     /\ Len(req[m].lines) = 3
     /\ req[m].lines[2].k = "AFFECTION_DELTA:"
     /\ req[m].lines[3].k = "AFFECTION_DELTA:"
     /\ Resident(1)
     /\ agents[active[1]].pending_affection_delta
          = FirstNumber(req[m].lines[3].toks).val
     /\ agents[active[1]].pending_affection_delta
          # FirstNumber(req[m].lines[2].toks).val

\* C31: a compression whose completion holds no parsed summary leaves the
\* previous summary and the buffered messages as they were; the buffer is
\* cleared and the summary replaced only when a summary was parsed.
UnparsedKeepsConversation ==
  [][\A m \in Slots :
       CompressReturns(m) /\ req'[m].lines # <<>>
         /\ ~ParseCompletion(req'[m].lines).summary =>
            LET i == req[m].inst
            IN /\ agents'[i].conversation_summary
                    = agents[i].conversation_summary
               /\ agents'[i].messages_for_compression
                    = agents[i].messages_for_compression]_vars

\* the scheduler's diary generation fails in this step
DiaryFails == sch.pc = "diary" /\ sch'.failed # sch.failed

\* C32: the staged fields are cleared only in a step that hands the staged
\* content to the diary table; a failed generation leaves the staged fields,
\* the daily fields, the row and the registration of its agent as they were;
\* and the diary written for a pair after a failed one is the failed one.
FailedDiaryRetried ==
  [][/\ \A i \in 1..Len(agents) :
          /\ agents[i].pending_diary_date # NoDate
          /\ agents'[i].pending_diary_date = NoDate
          => /\ Len(diaries') = Len(diaries) + 1
             /\ LET e == diaries'[Len(diaries')]
                IN /\ e.date = agents[i].pending_diary_date
                   /\ e.summary = agents[i].pending_diary_summary
                   /\ e.messages = Ids(agents[i].pending_diary_messages)
     /\ DiaryFails =>
          /\ agents'[sch.inst] = agents[sch.inst]
          /\ db' = db
          /\ active' = active
          /\ hib' = hib
     /\ Len(diaries') = Len(diaries) + 1 =>
          LET e == diaries'[Len(diaries')]
          IN \A f \in sch.failed :
                f.c = e.c /\ f.p = e.p /\ f \notin Range(diaries) => e = f]_vars

\* the scheduler ends, in this step and with no call failing, a pair for
\* which it has written a diary
DiaryPairDone ==
  /\ sch.pc \in {"progress", "hibernate"}
  /\ sch.diary # NoDiary
  /\ sch'.ok > sch.ok
  /\ left' = left

\* C33: when the scheduler has generated a diary for a pair, the agent's
\* window, buffer and summary are empty, its pending delta and daily count
\* are 0, nothing is staged, its date is the player's local date, the row
\* holds its level and total, and the agent is not resident, with the payload
\* of exactly this state in the row.
DiaryLeavesFreshDay ==
  [][DiaryPairDone =>
       LET s == agents'[sch.inst]
           row == db'[sch.c][sch.p]
       IN /\ s.messages_today = <<>>
          /\ s.messages_for_compression = <<>>
          /\ s.conversation_summary = EmptySummary
          /\ s.pending_affection_delta = 0
          /\ s.messages_today_count = 0
          /\ PendingDiary(s) = NoDiary
          /\ s.today_date = PlayerDate(now, PlayerTimezone(s))
          /\ row.affection_level = s.affection_level
          /\ row.total_messages = s.total_messages
          /\ active'[sch.c] = 0
          /\ row.hibernate_data = HibernateData(s)]_vars

\* what is staged for the pair of character c and player 1: in its resident
\* agent, or in what a wake would restore from the row
PairPending(c) ==
  IF Resident(c) THEN PendingDiary(agents[active[c]])
  ELSE IF db[c][1].present THEN PendingDiary(TransformState(db[c][1], c, 1))
  ELSE NoDiary

\* C34: what is staged for a pair changes only in the step that hands it to
\* the diary table: no rollover of a later turn, no hibernation or wake and
\* no failed generation changes or clears it.
StagedUntilWritten ==
  [][\A c \in Played :
       LET staged == PairPending(c)
       IN staged.date # NoDate /\ PairPending(c)' # staged
          => /\ Len(diaries') = Len(diaries) + 1
             /\ LET e == diaries'[Len(diaries')]
                IN /\ e.c = c
                   /\ e.date = staged.date
                   /\ e.summary = staged.summary
                   /\ e.messages = Ids(staged.messages)
                   /\ e.count = staged.count]_vars

\* the row of the pair that the agent object i was created for
OwnRow(d, i) == d[agents[i].character_id][agents[i].player_address]

\* request m's turn passes, in this step, from the write of the applied
\* delta to the chat completion
PersistReturns(m) == req[m].pc = "progress" /\ req'[m].pc = "chat"

\* C35: a turn that has applied a nonzero delta goes on to the chat
\* completion only after the row of the agent's own pair holds the new level
\* and the total, so that while the completion is awaited, and when it
\* fails, that row's level is the agent's.
PersistedBeforeChat ==
  [][\A m \in Slots :
       /\ PersistReturns(m) =>
            LET i == req[m].inst
            IN /\ OwnRow(db', i).affection_level = agents'[i].affection_level
               /\ OwnRow(db', i).total_messages = agents[i].total_messages
       /\ req[m].pc = "chat" =>
            OwnRow(db, req[m].inst).affection_level
               = agents[req[m].inst].affection_level]_vars

\* C36: once /create has ended, the offset it supplied is the timezone
\* column of the pair's row, which the scheduler matches, and the offset
\* every agent object of the pair uses for the player's local date, before
\* and after a hibernation.
SuppliedOffsetUsed ==
  crt.pc = "idle" =>
    /\ \A c \in Chars, p \in Players :
          db[c][p].present => db[c][p].player_timezone = crt.tz
    /\ \A i \in 1..Len(agents) : PlayerTimezone(agents[i]) = crt.tz

\* request m's process_message runs, in this step, its date check and what
\* follows up to the next await
TurnChecksDate(m) ==
  /\ \/ req[m].pc = "idle" /\ left'.reqs < left.reqs
     \/ req[m].pc \in {"clear", "turn_wait"} /\ req'[m] # req[m]
  /\ req'[m].pc = "progress" \/ nMsg' = nMsg + 1

GuardHolder(i) ==
  \/ lock[i] = 0
  \/ /\ lock[i] \in Slots
     /\ req[lock[i]].inst = i
     /\ req[lock[i]].pc \in {"progress", "chat", "compress"}

\* C38: compression_lock is held only while a process_message or a
\* compression is running on the agent (it is released when either ends,
\* by return or by failure), and under fair scheduling every process_message
\* waiting for the lock eventually acquires it.
GuardReleasedAndAcquired ==
  /\ [](\A i \in 1..Len(agents) : GuardHolder(i))
  /\ \A m \in Slots : (req[m].pc = "turn_wait") ~> (req[m].pc # "turn_wait")

\* a process_message waits for the lock that a failed turn or compression
\* has just released
WaiterAfterFailure ==
  \E m \in Slots :
    /\ req[m].pc = "turn_wait"
    /\ lock[req[m].inst] = 0
    /\ left.faults < GuardFaults

\* C39: when gift processing returns after its payload write, the stored
\* affection_level of the pair is the new level min(1000, previous + boost).
GiftBoostDurable ==
  [][gft.pc = "save" /\ gft'.pc = "idle" =>
       db'[gft.c][gft.p].affection_level = GiftAffection(gft.row, gft.boost)]_vars

\* C40: whenever the idle sweep starts the hibernation of an agent, that
\* agent's last activity is older than the idle timeout at that moment.
HibernatesOnlyIdle ==
  [][swp'.pc = "hibernate" /\ swp' # swp =>
       /\ lastAct'[swp'.out.c] # NoDate
       /\ lastAct'[swp'.out.c] < now' - IdleTimeout]_vars

====
